---------------------------- MODULE Spec2Model ----------------------------
(***************************************************************************)
(* A model of go-llm-chat: the /api handler (cmd/server/main.go), the SSE  *)
(* consumer (internal/sse), the orchestrator run                           *)
(* (internal/orchestrator, ProcessMessage), the completion client          *)
(* (internal/llmclient) and the flight store (internal/db).                *)
(*                                                                         *)
(* Texts are TLA+ strings; strings.Contains, strings.ToLower, the price    *)
(* regular expressions and fmt.Sprintf are computed character by           *)
(* character with Len, SubSeq and \o.                                      *)
(***************************************************************************)
EXTENDS Integers, Sequences, FiniteSets, TLC

(***************************************************************************)
(* Bounds of the model.                                                    *)
(***************************************************************************)
\* number of distinct non-empty texts a successful completion call may return
NumCompletions == 1

\* how many times the server is started (SeedFlights runs at every start)
MaxSeedRuns == 2

\* how many events ServeHTTP receives when it is followed on its own
MaxEvents == 3

\* how many chunks a stream of the aggregation call may deliver
MaxChunks == 2

(***************************************************************************)
(* String helpers (package strings, strconv, regexp).                      *)
(***************************************************************************)
UpperLetters == "ABCDEFGHIJKLMNOPQRSTUVWXYZÍ"
LowerLetters == "abcdefghijklmnopqrstuvwxyzí"
Digits == "0123456789"

CharAt(s, i) == SubSeq(s, i, i)

\* strings.Contains(s, sub)
Contains(s, sub) ==
    \E i \in 1..(Len(s) - Len(sub) + 1) : SubSeq(s, i, i + Len(sub) - 1) = sub

\* unicode.ToLower of one character
LowerChar(c) ==
    IF \E i \in 1..Len(UpperLetters) : CharAt(UpperLetters, i) = c
    THEN LET i == CHOOSE k \in 1..Len(UpperLetters) : CharAt(UpperLetters, k) = c
         IN  CharAt(LowerLetters, i)
    ELSE c

RECURSIVE ToLower(_)
\* strings.ToLower(s)
ToLower(s) ==
    IF s = "" THEN "" ELSE LowerChar(Head(s)) \o ToLower(Tail(s))

IsDigit(c) == \E i \in 1..Len(Digits) : CharAt(Digits, i) = c

DigitValue(c) == (CHOOSE i \in 1..Len(Digits) : CharAt(Digits, i) = c) - 1

RECURSIVE ParseDigits(_, _)
\* strconv.ParseFloat on a string of decimal digits, acc is the value so far
ParseDigits(s, acc) ==
    IF s = "" THEN acc
    ELSE ParseDigits(Tail(s), 10 * acc + DigitValue(Head(s)))

RECURSIVE DigitRun(_, _)
\* the longest run of digits of s starting at position i: the capture (\d+)
DigitRun(s, i) ==
    IF i <= Len(s) /\ IsDigit(CharAt(s, i))
    THEN CharAt(s, i) \o DigitRun(s, i + 1)
    ELSE ""

(***************************************************************************)
(* Entity extraction of ProcessMessage.                                    *)
(***************************************************************************)
\* variant: the keyword test also fires on city names
IsFlightQueryWithCities(lowerMsg) ==
    \/ Contains(lowerMsg, "vuelo")
    \/ Contains(lowerMsg, "flight")
    \/ Contains(lowerMsg, "madrid")
    \/ Contains(lowerMsg, "paris")
    \/ Contains(lowerMsg, "london")

\* the keyword test of ProcessMessage on the lowercased message
IsFlightQuery(lowerMsg) ==
    \/ Contains(lowerMsg, "vuelo")
    \/ Contains(lowerMsg, "vuelos")
    \/ Contains(lowerMsg, "flight")
    \/ Contains(lowerMsg, "flights")

\* the synonyms map of ProcessMessage: <<synonym, canonical name>>
SynonymTable ==
    { <<"madrid", "Madrid">>, <<"paris", "Paris">>, <<"parís", "Paris">>,
      <<"barcelona", "Barcelona">>, <<"london", "London">>,
      <<"londres", "London">>, <<"new york", "New York">>,
      <<"roma", "Rome">>, <<"rome", "Rome">>,
      <<"los angeles", "Los Angeles">>, <<"berlin", "Berlin">>,
      <<"tokyo", "Tokyo">>, <<"seville", "Seville">>,
      <<"sevilla", "Seville">>, <<"valencia", "Valencia">> }

SynKeys == { p[1] : p \in SynonymTable }

\* variant: the loops take the key found in the text, not its canonical name
CanonIsKey(syn) == syn

\* synonyms[syn]
Canon(syn) == (CHOOSE p \in SynonymTable : p[1] = syn)[2]

\* The keys of the map that occur in the text.  Every test of the two
\* extraction loops contains the key as a substring, so a key that does not
\* occur in the text never changes origin or destination, and the result of
\* a traversal of the map is decided by the relative order of these keys.
PresentKeys(lower) == { syn \in SynKeys : Contains(lower, syn) }

\* the orders in which `range synonyms` may visit the keys of a set
Traversals(S) ==
    { o \in [1..Cardinality(S) -> S] :
        \A i, j \in 1..Cardinality(S) : i # j => o[i] # o[j] }

OriginPattern(lower, syn) ==
    Contains(lower, "from " \o syn) \/ Contains(lower, "desde " \o syn)

DestinationPattern(lower, syn) ==
    \/ Contains(lower, "to " \o syn)
    \/ Contains(lower, " a " \o syn)
    \/ Contains(lower, "hacia " \o syn)

RECURSIVE PatternLoop(_, _, _, _, _)
\* the first loop over synonyms, visiting the keys in the order `order`
\* from position i on, with the current values of origin and destination
PatternLoop(lower, order, i, origin, destination) ==
    IF i > Len(order) THEN [origin |-> origin, destination |-> destination]
    ELSE LET syn == order[i]
             o == IF origin = "" /\ OriginPattern(lower, syn)
                  THEN Canon(syn) ELSE origin
             d == IF destination = "" /\ DestinationPattern(lower, syn)
                  THEN Canon(syn) ELSE destination
         IN  PatternLoop(lower, order, i + 1, o, d)

RECURSIVE SingleCityLoopAnyCity(_, _, _, _)
\* variant: the second loop takes the first key that occurs in the text,
\* the origin included
SingleCityLoopAnyCity(lower, order, i, origin) ==
    IF i > Len(order) THEN ""
    ELSE IF Contains(lower, order[i])
         THEN Canon(order[i])
         ELSE SingleCityLoopAnyCity(lower, order, i + 1, origin)

RECURSIVE SingleCityLoop(_, _, _, _)
\* the second loop over synonyms (single-city detection), stopping at the
\* first key that occurs in the text and whose canonical name is not origin
SingleCityLoop(lower, order, i, origin) ==
    IF i > Len(order) THEN ""
    ELSE IF Contains(lower, order[i]) /\ Canon(order[i]) # origin
         THEN Canon(order[i])
         ELSE SingleCityLoop(lower, order, i + 1, origin)

\* the literal prefixes of pricePatterns, each followed by (\d+)
PricePatterns ==
    << "under ", "less than ", "below ",
       "under $", "less than $", "below $",
       "menos de ", "bajo ", "inferior a ",
       "menos de $", "bajo $", "inferior a $" >>

\* the positions where the pattern prefix followed by a digit matches
PatternMatches(lower, prefix) ==
    { i \in 1..(Len(lower) - Len(prefix)) :
        /\ SubSeq(lower, i, i + Len(prefix) - 1) = prefix
        /\ IsDigit(CharAt(lower, i + Len(prefix))) }

\* FindStringSubmatch(lower)[1] of the leftmost match, parsed
PatternPrice(lower, prefix) ==
    LET S == PatternMatches(lower, prefix)
        i == CHOOSE k \in S : \A m \in S : k <= m
    IN  ParseDigits(DigitRun(lower, i + Len(prefix)), 0)

RECURSIVE PriceLoop(_, _)
\* the loop over pricePatterns: the first pattern that matches sets maxPrice,
\* and maxPrice stays 0 when none does
PriceLoop(lower, k) ==
    IF k > Len(PricePatterns) THEN 0
    ELSE IF PatternMatches(lower, PricePatterns[k]) # {}
         THEN PatternPrice(lower, PricePatterns[k])
         ELSE PriceLoop(lower, k + 1)

\* origin, destination and maxPrice as ProcessMessage computes them when the
\* first loop visits the present keys in order1 and the second in order2
ExtractFilter(lower, order1, order2) ==
    LET p == PatternLoop(lower, order1, 1, "", "")
        d == IF p.destination = ""
             THEN SingleCityLoop(lower, order2, 1, p.origin)
             ELSE p.destination
    IN  [origin |-> p.origin, destination |-> d, maxPrice |-> PriceLoop(lower, 1)]

(***************************************************************************)
(* Classification, extraction and prompts of ProcessMessageStream.         *)
(***************************************************************************)
\* isFlightQuery of ProcessMessageStream on the lowercased message
IsFlightQueryStream(lower) ==
    \E w \in { "vuelo", "flight", "fly", "airplane", "madrid", "paris", "london",
                "londres", "barcelona", "valencia", "seville", "sevilla", "tokyo",
                "new york", "los angeles", "berlin", "rome", "roma" } :
        Contains(lower, w)

\* the synonyms map of ProcessMessageStream
StreamSynonymTable ==
    { <<"madrid", "Madrid">>, <<"paris", "Paris">>, <<"london", "London">>,
      <<"londres", "London">>, <<"barcelona", "Barcelona">>,
      <<"valencia", "Valencia">>, <<"seville", "Seville">>,
      <<"sevilla", "Seville">>, <<"tokyo", "Tokyo">>, <<"new york", "New York">>,
      <<"nyc", "New York">>, <<"jfk", "New York">>,
      <<"los angeles", "Los Angeles">>, <<"la", "Los Angeles">>,
      <<"lax", "Los Angeles">>, <<"berlin", "Berlin">>, <<"rome", "Rome">>,
      <<"roma", "Rome">> }

StreamSynKeys == { p[1] : p \in StreamSynonymTable }

StreamCanon(syn) == (CHOOSE p \in StreamSynonymTable : p[1] = syn)[2]

\* the keys of the map that occur in the text
StreamPresentKeys(lower) == { syn \in StreamSynKeys : Contains(lower, syn) }

RECURSIVE StreamPatternLoop(_, _, _, _, _)
\* the first loop of ProcessMessageStream: every key whose pattern matches
\* assigns, so the last one visited stays
StreamPatternLoop(lower, order, i, origin, destination) ==
    IF i > Len(order) THEN [origin |-> origin, destination |-> destination]
    ELSE LET syn == order[i]
             o == IF OriginPattern(lower, syn) THEN StreamCanon(syn) ELSE origin
             d == IF DestinationPattern(lower, syn) THEN StreamCanon(syn)
                  ELSE destination
         IN  StreamPatternLoop(lower, order, i + 1, o, d)

RECURSIVE StreamSingleCityLoop(_, _, _, _)
\* the second loop of ProcessMessageStream
StreamSingleCityLoop(lower, order, i, origin) ==
    IF i > Len(order) THEN ""
    ELSE IF Contains(lower, order[i]) /\ StreamCanon(order[i]) # origin
         THEN StreamCanon(order[i])
         ELSE StreamSingleCityLoop(lower, order, i + 1, origin)

\* the arguments of the SearchFlights call of ProcessMessageStream: the
\* price ceiling is the literal 0
StreamExtractFilter(lower, order1, order2) ==
    LET p == StreamPatternLoop(lower, order1, 1, "", "")
        d == IF p.destination = ""
             THEN StreamSingleCityLoop(lower, order2, 1, p.origin)
             ELSE p.destination
    IN  [origin |-> p.origin, destination |-> d, maxPrice |-> 0]

(***************************************************************************)
(* The flight store (internal/db).                                         *)
(***************************************************************************)
Flight(num, orig, dest, dep, arr, price, seats) ==
    [FlightNumber |-> num, Origin |-> orig, Destination |-> dest,
     DepartureTime |-> dep, ArrivalTime |-> arr, Price |-> price,
     AvailableSeats |-> seats]

\* the documents SeedFlights upserts, in the order of the slice
SampleFlights ==
    << Flight("FL101", "Madrid", "Paris", "2025-08-10T09:00:00Z", "2025-08-10T11:00:00Z", 120, 50),
       Flight("FL102", "Madrid", "Paris", "2025-08-10T15:00:00Z", "2025-08-10T17:00:00Z", 150, 30),
       Flight("FL103", "Madrid", "Paris", "2025-08-11T10:00:00Z", "2025-08-11T12:00:00Z", 110, 20),
       Flight("FL104", "Madrid", "Paris", "2025-08-11T18:00:00Z", "2025-08-11T20:00:00Z", 130, 40),
       Flight("FL105", "Madrid", "Barcelona", "2025-08-12T07:00:00Z", "2025-08-12T08:30:00Z", 90, 60),
       Flight("FL106", "Barcelona", "Madrid", "2025-08-12T19:00:00Z", "2025-08-12T20:30:00Z", 95, 55),
       Flight("FL107", "London", "New York", "2025-08-13T09:00:00Z", "2025-08-13T17:00:00Z", 550, 120),
       Flight("FL108", "New York", "London", "2025-08-14T10:00:00Z", "2025-08-14T18:00:00Z", 540, 110),
       Flight("FL109", "Rome", "Paris", "2025-08-15T11:00:00Z", "2025-08-15T12:30:00Z", 115, 65),
       Flight("FL110", "London", "Paris", "2025-08-16T09:00:00Z", "2025-08-16T11:30:00Z", 200, 100),
       Flight("FL111", "Paris", "London", "2025-08-16T14:00:00Z", "2025-08-16T16:30:00Z", 195, 100),
       Flight("FL112", "London", "Berlin", "2025-08-17T08:00:00Z", "2025-08-17T10:00:00Z", 160, 80),
       Flight("FL113", "Berlin", "London", "2025-08-17T18:00:00Z", "2025-08-17T20:00:00Z", 155, 85),
       Flight("FL114", "Barcelona", "Seville", "2025-08-18T07:30:00Z", "2025-08-18T08:45:00Z", 80, 70),
       Flight("FL115", "Seville", "Barcelona", "2025-08-18T19:30:00Z", "2025-08-18T20:45:00Z", 82, 70),
       Flight("FL116", "Madrid", "Valencia", "2025-08-19T06:00:00Z", "2025-08-19T07:00:00Z", 70, 90),
       Flight("FL117", "Valencia", "Madrid", "2025-08-19T18:00:00Z", "2025-08-19T19:00:00Z", 72, 88),
       Flight("FL118", "Tokyo", "Los Angeles", "2025-08-20T02:00:00Z", "2025-08-20T12:00:00Z", 900, 250),
       Flight("FL119", "Los Angeles", "Tokyo", "2025-08-21T03:00:00Z", "2025-08-21T13:00:00Z", 880, 245),
       Flight("FL120", "New York", "Tokyo", "2025-08-22T04:00:00Z", "2025-08-22T18:00:00Z", 950, 200) >>

\* variant: the regex is applied without the option "i"
RegexMatchCaseSensitive(field, pattern) == Contains(field, pattern)

\* {"$regex": pattern, "$options": "i"} on a field, for a pattern of letters
\* and spaces: a case-insensitive partial match
RegexMatch(field, pattern) == Contains(ToLower(field), ToLower(pattern))

\* variant: a destination alone is matched against the destination field only
MatchesFilterDirectional(f, origin, destination, maxPrice) ==
    /\ origin # "" => RegexMatch(f.Origin, origin)
    /\ destination # "" => RegexMatch(f.Destination, destination)
    /\ maxPrice > 0 => f.Price <= maxPrice

\* the filter document SearchFlights builds, applied to one document
MatchesFilter(f, origin, destination, maxPrice) ==
    /\ origin # "" => RegexMatch(f.Origin, origin)
    /\ (destination # "" /\ origin = "") =>
          (RegexMatch(f.Destination, destination) \/ RegexMatch(f.Origin, destination))
    /\ (destination # "" /\ origin # "") => RegexMatch(f.Destination, destination)
    /\ maxPrice > 0 => f.Price <= maxPrice

\* variant: a call without origin and destination finds nothing
SearchFlightsRequiresCity(coll, origin, destination, maxPrice) ==
    IF origin = "" /\ destination = "" THEN <<>>
    ELSE SelectSeq(coll, LAMBDA f : MatchesFilter(f, origin, destination, maxPrice))

\* variant: the price predicate is added whatever maxPrice is
SearchFlightsCeilingAlways(coll, origin, destination, maxPrice) ==
    SelectSeq(coll, LAMBDA f : /\ MatchesFilter(f, origin, destination, maxPrice)
                               /\ f.Price <= maxPrice)

\* the flights SearchFlights returns when Find succeeds
SearchFlights(coll, origin, destination, maxPrice) ==
    SelectSeq(coll, LAMBDA f : MatchesFilter(f, origin, destination, maxPrice))

(***************************************************************************)
(* Prompt building of ProcessMessage.                                      *)
(***************************************************************************)
RECURSIVE IntToStr(_)
\* the decimal digits of a natural number (fmt %d)
IntToStr(n) ==
    IF n < 10 THEN CharAt(Digits, n + 1)
    ELSE IntToStr(n \div 10) \o CharAt(Digits, (n % 10) + 1)

\* fmt %.2f of a price; the prices of the store are whole numbers
FormatPrice(p) == IntToStr(p) \o ".00"

FlightLine(f) ==
    "Flight " \o f.FlightNumber \o ": " \o f.Origin \o " -> " \o f.Destination
    \o ", departure " \o f.DepartureTime \o ", arrival " \o f.ArrivalTime
    \o ", price $" \o FormatPrice(f.Price) \o "\n"

RECURSIVE FlightsInfo(_)
FlightsInfo(fs) ==
    IF fs = <<>> THEN "" ELSE FlightLine(Head(fs)) \o FlightsInfo(Tail(fs))

SpanishWords ==
    << "hola", "como", "estas", "que", "hay", "vuelos", "vuelo", "desde",
       "hacia", "menos", "bajo", "inferior", "cuanto", "cuesta", "precio",
       "costo", "duracion", "tiempo" >>

detectLanguage(message) ==
    IF \E k \in 1..Len(SpanishWords) : Contains(ToLower(message), SpanishWords[k])
    THEN "Spanish" ELSE "English"

\* promptLLM1 and promptLLM2 of the flight path
FlightPrompt(g, language, info) ==
    IF language = "Spanish"
    THEN IF g = 1
         THEN "Lista los vuelos disponibles de los siguientes datos. Solo lista los vuelos, no proporciones información adicional. Responde en español.\n" \o info
         ELSE "Para cada vuelo en los siguientes datos, di cuánto tiempo toma y cuánto cuesta. Responde en español.\n" \o info
    ELSE IF g = 1
         THEN "List the available flights from the following data. Only list the flights, do not provide extra information.\n" \o info
         ELSE "For each flight in the following data, say how long the flight takes and how much it costs.\n" \o info

\* promptLLM1 and promptLLM2 of the general path
GeneralPrompt(g, language, message) ==
    IF language = "Spanish"
    THEN IF g = 1
         THEN "Por favor responde la siguiente pregunta de manera corta, formal y concisa: " \o message
         ELSE "Por favor responde la siguiente pregunta de manera amigable, verbosa y con opiniones, proporcionando más información y tus pensamientos: " \o message
    ELSE IF g = 1
         THEN "Please answer the following question in a short, formal, and concise manner: " \o message
         ELSE "Please answer the following question in a friendly, verbose, and opinionated way, providing more information and your thoughts: " \o message

\* aggregationPrompt: fmt.Sprintf of the template of the path and language
\* with llm1Resp and llm2Resp
AggregationPrompt(p, language, r1, r2) ==
    IF p = "flight"
    THEN IF language = "Spanish"
         THEN "Eres un agregador inteligente. Combina estas dos respuestas sobre vuelos en una respuesta coherente y bien formateada:\n\nRespuesta de LLM1 (lista de vuelos):\n"
              \o r1 \o "\n\nRespuesta de LLM2 (duración y costo):\n" \o r2
              \o "\n\nPor favor crea una respuesta unificada que:\n1. Liste todos los vuelos disponibles claramente\n2. Incluya duración y costo para cada vuelo\n3. Use formato limpio sin markdown excesivo (evita ** para énfasis)\n4. Elimine cualquier redundancia entre las dos respuestas\n5. Mantenga toda la información importante de ambas respuestas\n6. Use formato simple como \"Vuelo FL101:\" en lugar de \"**Vuelo FL101:**\"\n7. Responde completamente en español"
         ELSE "You are an intelligent aggregator. Combine these two responses about flights into one coherent, well-formatted answer:\n\nLLM1 Response (flight list):\n"
              \o r1 \o "\n\nLLM2 Response (duration and cost):\n" \o r2
              \o "\n\nPlease create a unified response that:\n1. Lists all available flights clearly\n2. Includes duration and cost for each flight\n3. Uses clean formatting without excessive markdown (avoid ** for emphasis)\n4. Removes any redundancy between the two responses\n5. Maintains all the important information from both responses\n6. Uses simple formatting like \"Flight FL101:\" instead of \"**Flight FL101:**\""
    ELSE IF language = "Spanish"
         THEN "Eres un agregador inteligente. Combina estas dos respuestas a la misma pregunta en una respuesta coherente y bien equilibrada:\n\nRespuesta de LLM1 (formal y concisa):\n"
              \o r1 \o "\n\nRespuesta de LLM2 (amigable y verbosa):\n" \o r2
              \o "\n\nAl inicio de tu respuesta, menciona brevemente que LLM1 es corto/formal/conciso y LLM2 es amigable/verboso/con opiniones.\n\nPor favor crea una respuesta unificada que:\n1. Combine lo mejor de ambos estilos\n2. Esté bien formateada y sea fácil de leer\n3. Elimine redundancia manteniendo toda la información importante\n4. Mantenga un tono equilibrado entre formal y amigable\n5. Responda completamente en español"
         ELSE "You are an intelligent aggregator. Combine these two responses to the same question into one coherent, well-balanced answer:\n\nLLM1 Response (formal and concise):\n"
              \o r1 \o "\n\nLLM2 Response (friendly and verbose):\n" \o r2
              \o "\n\nAt the top of your answer, briefly state that LLM1 is short/formal/concise and LLM2 is friendly/verbose/opinionated.\n\nPlease create a unified response that:\n1. Combines the best of both styles\n2. Is well-formatted and easy to read\n3. Removes redundancy while keeping all important information\n4. Maintains a balanced tone between formal and friendly"

\* variant: the two answers are separated by a single line break
CombinedOneNewline(p, r1, r2) ==
    IF p = "flight"
    THEN "LLM1 (flights list):\n" \o r1 \o "\nLLM2 (duration and cost):\n" \o r2
    ELSE "LLM1 (short, formal, concise):\n" \o r1
         \o "\nLLM2 (friendly, verbose, opinionated):\n" \o r2

\* promptLLM1 and promptLLM2 of the flight path of ProcessMessageStream
StreamFlightPrompt(g, info) ==
    IF g = 1
    THEN "List the available flights from the following data. Only list the flights, do not provide extra information.\n" \o info
    ELSE "For each flight in the following data, say how long the flight takes and how much it costs.\n" \o info

\* aggregationPrompt of ProcessMessageStream
StreamAggregationPrompt(p, language, r1, r2) ==
    IF p = "flight"
    THEN "You are an intelligent aggregator. Combine these two responses about flights into one coherent, well-formatted answer:\n\nLLM1 Response (flight list):\n"
         \o r1 \o "\n\nLLM2 Response (duration and cost):\n"
         \o r2 \o "\n\nPlease create a unified response that:\n1. Lists all available flights clearly\n2. Includes duration and cost for each flight\n3. Is well-formatted and easy to read\n4. Removes any redundancy between the two responses\n5. Maintains all the important information from both responses"
    ELSE IF language = "Spanish"
    THEN "Eres un agregador inteligente. Combina estas dos respuestas a la misma pregunta en una respuesta coherente y bien equilibrada:\n\nRespuesta de LLM1 (formal y concisa):\n"
         \o r1 \o "\n\nRespuesta de LLM2 (amigable y verbosa):\n"
         \o r2 \o "\n\nAl inicio de tu respuesta, menciona brevemente que LLM1 es corto/formal/conciso y LLM2 es amigable/verboso/con opiniones.\n\nPor favor crea una respuesta unificada que:\n1. Combine lo mejor de ambos estilos\n2. Esté bien formateada y sea fácil de leer\n3. Elimine redundancia manteniendo toda la información importante\n4. Mantenga un tono equilibrado entre formal y amigable\n5. Responda completamente en español"
    ELSE "You are an intelligent aggregator. Combine these two responses to the same question into one coherent, well-balanced answer:\n\nLLM1 Response (formal and concise):\n"
         \o r1 \o "\n\nLLM2 Response (friendly and verbose):\n"
         \o r2 \o "\n\nAt the top of your answer, briefly state that LLM1 is short/formal/concise and LLM2 is friendly/verbose/opinionated.\n\nPlease create a unified response that:\n1. Combines the best of both styles\n2. Is well-formatted and easy to read\n3. Removes redundancy while keeping all important information\n4. Maintains a balanced tone between formal and friendly"

\* the fallback text `combined` of ProcessMessageStream
StreamCombined(p, r1, r2) ==
    IF p = "flight"
    THEN "LLM1 (flights list):\n" \o r1 \o "\n\nLLM2 (duration and cost):\n" \o r2
    ELSE "LLM1 (formal):\n" \o r1 \o "\n\nLLM2 (friendly):\n" \o r2

\* the fallback text `combined` of the path
Combined(p, r1, r2) ==
    IF p = "flight"
    THEN "LLM1 (flights list):\n" \o r1 \o "\n\nLLM2 (duration and cost):\n" \o r2
    ELSE "LLM1 (short, formal, concise):\n" \o r1
         \o "\n\nLLM2 (friendly, verbose, opinionated):\n" \o r2

\* the Data of the Status event a stage goroutine sends before its call
InvokingText(p, g) ==
    IF p = "flight"
    THEN IF g = 1 THEN "Invoking LLM 1 (list available flights only)"
         ELSE "Invoking LLM 2 (calculate duration and cost for each flight)"
    ELSE "Invoking LLM " \o IntToStr(g)

\* the Data of the Status event a stage goroutine sends after its call
GotText(g) == "Got response from LLM " \o IntToStr(g)

\* variant: a failed stage writes an empty answer
StageAnswerDropsError(g, out) ==
    IF out.ok THEN out.text ELSE ""

\* the answer a stage goroutine writes to its response channel
StageAnswer(g, out) ==
    IF out.ok THEN out.text ELSE "[LLM" \o IntToStr(g) \o " Error] " \o out.text

Event(type, data) == [Type |-> type, Data |-> data]

(***************************************************************************)
(* The run: one request to /api.                                           *)
(***************************************************************************)
VARIABLES
    reqMethod,      \* r.Method
    output,         \* lines the handling of requests wrote to stdout and the log
    client,         \* one call of an OpenAIClient method on its own
    streamChan,     \* the chunks not yet read from streamChan
    userMessage,    \* the request body
    flusherOK,      \* whether the ResponseWriter is an http.Flusher
    collection,     \* the documents of flightdb.flights
    ctxDone,        \* r.Context() is cancelled
    cancelledAt,    \* history: orchPc when the context was cancelled
    httpStatus,     \* the status the handler answered with (0: none yet)
    hPc,            \* position of the /api handler and of ServeHTTP
    orchPc,         \* position of the goroutine running ProcessMessage
    stagePc,        \* position of the LLM1 and LLM2 goroutines
    path,           \* "flight" or "general" once the message is classified
    filter,         \* origin, destination, maxPrice passed to SearchFlights
    flights,        \* the flights SearchFlights returned
    searchErr,      \* whether SearchFlights returned an error
    language,       \* detectLanguage(userMessage)
    prompt,         \* the prompt of the call issued to LLM 1, 2, 3
    dbCalls,        \* number of SearchFlights calls issued
    llmCalls,       \* number of ChatCompletion calls issued to LLM 1, 2, 3
    issuedDone,     \* whether the context was cancelled when the call was issued
    llmResult,      \* resp, err of the call returned by LLM 1, 2, 3
    respChan,       \* llm1RespChan, llm2RespChan (buffered, capacity 1)
    wg,             \* the WaitGroup counter
    llmResp,        \* llm1Resp, llm2Resp
    eventChanClosed,\* eventChan is closed
    delivered,      \* the events received from eventChan, in order
    seedRuns,       \* number of SeedFlights calls that have returned
    seedErr,        \* whether the last SeedFlights call returned an error
    runs            \* the requests of a load test, served at the same time

vars ==
    << reqMethod, client, streamChan, output, seedRuns, seedErr, runs, userMessage, flusherOK, collection, ctxDone, cancelledAt,
       httpStatus, hPc, orchPc, stagePc, path, filter, flights, searchErr, language,
       prompt, dbCalls, llmCalls, issuedDone, llmResult, respChan, wg,
       llmResp, eventChanClosed, delivered >>

\* request bodies: the README and load-test examples and variations of them
Queries ==
    { "Explain quantum teleportation in simple terms",
      "Is Madrid nice in summer?",
      "hay vuelos a londres?",
      "Que vuelos hay en general?",
      "Show me flights from Madrid to Paris under 600 euros",
      "Flights between Madrid and Paris",
      "flights from madrid to tokyo",
      "flights from MAD to JFK" }

Methods == { "POST", "GET" }

Stages == { 1, 2 }

LLMs == { 1, 2, 3 }

\* the texts a successful completion may return: Choices[0].Message.Content
\* is an empty string or not
Completions == { "" } \cup { "answer " \o IntToStr(k) : k \in 1..NumCompletions }

NoResult == [ok |-> FALSE, text |-> ""]

\* a nil channel
NilChan == [buf |-> <<>>, closed |-> FALSE, nil |-> TRUE]

\* what the API does with a request that is not sent
NoReply ==
    [kind |-> "none", err |-> "", status |-> 0, body |-> "", decodes |-> FALSE,
     decodeErr |-> "", choices |-> <<>>]

\* no method of an OpenAIClient is called on its own
NoClient ==
    [apiKey |-> "", reply |-> NoReply, pc |-> "none", requests |-> 0,
     text |-> "", err |-> "", chan |-> NilChan, received |-> <<>>]

\* resp, err of ChatCompletion: a text and no error, or "" and an error
Outcomes(cancelled) ==
    { [ok |-> TRUE, text |-> t] : t \in Completions }
      \cup { [ok |-> FALSE, text |-> "no response choices returned"] }
      \cup IF cancelled
           THEN { [ok |-> FALSE, text |-> "failed to make request: context canceled"] }
           ELSE {}

\* a document added to the collection by InsertFlights
ExtraFlights ==
    << Flight("FL121", "Madrid", "London", "2025-08-23T09:00:00Z", "2025-08-23T11:30:00Z", 180, 90) >>

\* the contents of flightdb.flights when the server starts serving: main has
\* run SeedFlights, on a collection that held no document or the extra one
Stores == { SampleFlights, ExtraFlights \o SampleFlights }

(***************************************************************************)
(* The values of the pure functions above on the request bodies and stores *)
(* of the model, computed once.                                            *)
(***************************************************************************)
\* lowerMsg, lower
LowerMsg == [q \in Queries |-> ToLower(q)]

\* the request bodies that pass the keyword test
FlightQueries == { q \in Queries : IsFlightQuery(LowerMsg[q]) }

\* origin, destination, maxPrice for every order in which the two loops may
\* traverse the synonyms map
Filters ==
    [q \in Queries |->
        { ExtractFilter(LowerMsg[q], order1, order2) :
            order1, order2 \in Traversals(PresentKeys(LowerMsg[q])) }]

AllFilters == UNION { Filters[q] : q \in Queries }

\* language
LanguageOf == [q \in Queries |-> detectLanguage(q)]

\* flights, when SearchFlights returns no error
Found ==
    [c \in Stores, f \in AllFilters |->
        SearchFlights(c, f.origin, f.destination, f.maxPrice)]

\* promptLLM1, promptLLM2 of the flight path
FlightPrompts ==
    [q \in Queries, c \in Stores, f \in AllFilters |->
        [g \in Stages |-> FlightPrompt(g, LanguageOf[q], FlightsInfo(Found[c, f]))]]

\* promptLLM1, promptLLM2 of the general path
GeneralPrompts ==
    [q \in Queries |-> [g \in Stages |-> GeneralPrompt(g, LanguageOf[q], q)]]

\* the request bodies ProcessMessageStream takes for flight queries
StreamFlightQueries == { q \in Queries : IsFlightQueryStream(LowerMsg[q]) }

\* origin, destination, maxPrice of ProcessMessageStream for every order in
\* which its two loops may traverse its synonyms map
StreamFilters ==
    [q \in Queries |->
        { StreamExtractFilter(LowerMsg[q], order1, order2) :
            order1, order2 \in Traversals(StreamPresentKeys(LowerMsg[q])) }]

StreamAllFilters == UNION { StreamFilters[q] : q \in Queries }

\* flights of ProcessMessageStream, when SearchFlights returns no error
StreamFound ==
    [c \in Stores, f \in StreamAllFilters |->
        SearchFlights(c, f.origin, f.destination, f.maxPrice)]

\* promptLLM1, promptLLM2 of the flight path of ProcessMessageStream
StreamFlightPrompts ==
    [c \in Stores, f \in StreamAllFilters |->
        [g \in Stages |-> StreamFlightPrompt(g, FlightsInfo(StreamFound[c, f]))]]

(***************************************************************************)
(* The requests of the load test, and the state of one of them.            *)
(***************************************************************************)
\* the requests the load test sends at the same time: its first two
Requests == { 1, 2 }

\* MESSAGES[1], MESSAGES[2], MESSAGES[3] of load_test.sh
LoadTestMessages ==
    << "Show me flights from Madrid to Paris under 600 euros",
       "Explain quantum physics in simple terms",
       "Hay vuelos a Londres?" >>

\* send_request: the message of request r
RequestBody(r) == LoadTestMessages[((r - 1) % Len(LoadTestMessages)) + 1]

\* lowerMsg of request r
RequestLower == [r \in Requests |-> ToLower(RequestBody(r))]

\* the keyword test on the message of request r
RequestIsFlight == [r \in Requests |-> IsFlightQuery(RequestLower[r])]

\* the filters ProcessMessage may extract from the message of request r
RequestFilters ==
    [r \in Requests |->
        { ExtractFilter(RequestLower[r], o1, o2) :
            o1, o2 \in Traversals(PresentKeys(RequestLower[r])) }]

\* what SearchFlights finds for those filters
RequestFound ==
    [c \in Stores, f \in UNION { RequestFilters[r] : r \in Requests } |->
        SearchFlights(c, f.origin, f.destination, f.maxPrice)]

\* resp, err of a ChatCompletion call of the load test: a text or an error
RequestOutcomes ==
    { [ok |-> TRUE, text |-> "answer 1"],
      [ok |-> FALSE, text |-> "no response choices returned"] }

\* a request that has arrived and that the handler has not looked at yet
InitRun ==
    [hPc |-> "init", orchPc |-> "idle",
     stagePc |-> [g \in Stages |-> "none"],
     path |-> "",
     filter |-> [origin |-> "", destination |-> "", maxPrice |-> 0],
     flights |-> <<>>, searchErr |-> FALSE,
     respChan |-> [g \in Stages |-> <<>>], wg |-> 0,
     llmResp |-> [g \in Stages |-> ""], llm3Resp |-> "",
     closed |-> FALSE, delivered |-> <<>>]

Init ==
    /\ reqMethod \in Methods
    /\ output = <<>>
    /\ client = NoClient
    /\ streamChan = <<>>
    /\ userMessage \in Queries \cup { "" }
    /\ flusherOK \in BOOLEAN
    /\ collection \in Stores
    /\ ctxDone = FALSE
    /\ cancelledAt = "none"
    /\ httpStatus = 0
    /\ hPc = "init"
    /\ orchPc = "idle"
    /\ stagePc = [g \in Stages |-> "none"]
    /\ path = ""
    /\ filter = [origin |-> "", destination |-> "", maxPrice |-> 0]
    /\ flights = <<>>
    /\ searchErr = FALSE
    /\ language = ""
    /\ prompt = [i \in LLMs |-> ""]
    /\ dbCalls = 0
    /\ llmCalls = [i \in LLMs |-> 0]
    /\ issuedDone = [i \in LLMs |-> FALSE]
    /\ llmResult = [i \in LLMs |-> NoResult]
    /\ respChan = [g \in Stages |-> <<>>]
    /\ wg = 0
    /\ llmResp = [g \in Stages |-> ""]
    /\ eventChanClosed = FALSE
    /\ delivered = <<>>
    /\ seedRuns = 1
    /\ seedErr = FALSE
    /\ runs = [r \in Requests |-> InitRun]

(***************************************************************************)
(* The /api handler and ServeHTTP.                                         *)
(***************************************************************************)
\* the request context is cancelled: history records where the run was
CancelCtx ==
    /\ ctxDone' = TRUE
    /\ cancelledAt' = IF ctxDone THEN cancelledAt ELSE orchPc

\* the handler rejects the request and returns; net/http then cancels the
\* request context
HandlerReject ==
    /\ hPc = "init"
    /\ reqMethod # "POST" \/ userMessage = ""
    /\ httpStatus' = IF reqMethod # "POST" THEN 405 ELSE 400
    /\ hPc' = "returned"
    /\ CancelCtx
    /\ UNCHANGED << reqMethod, client, streamChan, output, seedRuns, seedErr, runs, userMessage, flusherOK, collection, orchPc,
                    stagePc, path, filter, flights, searchErr, language, prompt, dbCalls,
                    llmCalls, issuedDone, llmResult, respChan, wg, llmResp,
                    eventChanClosed, delivered >>

\* variant: the handler does not test the method
HandlerStartAnyMethod ==
    /\ hPc = "init"
    /\ userMessage # ""
    /\ orchPc' = "start"
    /\ hPc' = "serve"
    /\ UNCHANGED << reqMethod, client, streamChan, output, seedRuns, seedErr, runs, userMessage, flusherOK, collection, ctxDone,
                    cancelledAt, httpStatus, stagePc, path, filter, flights, searchErr,
                    language, prompt, dbCalls, llmCalls, issuedDone, llmResult,
                    respChan, wg, llmResp, eventChanClosed, delivered >>

\* the handler makes eventChan, starts the orchestration goroutine and
\* calls ServeHTTP
HandlerStart ==
    /\ hPc = "init"
    /\ reqMethod = "POST" /\ userMessage # ""
    /\ orchPc' = "start"
    /\ hPc' = "serve"
    /\ UNCHANGED << reqMethod, client, streamChan, output, seedRuns, seedErr, runs, userMessage, flusherOK, collection, ctxDone,
                    cancelledAt, httpStatus, stagePc, path, filter, flights, searchErr,
                    language, prompt, dbCalls, llmCalls, issuedDone, llmResult,
                    respChan, wg, llmResp, eventChanClosed, delivered >>

\* ServeHTTP sets the headers and tests for http.Flusher; without it, it
\* answers 500 and returns, and so does the handler
ServeHTTPEnter ==
    /\ hPc = "serve"
    /\ IF flusherOK
       THEN /\ hPc' = "loop"
            /\ UNCHANGED << httpStatus, ctxDone, cancelledAt >>
       ELSE /\ httpStatus' = 500
            /\ hPc' = "returned"
            /\ CancelCtx
    /\ UNCHANGED << reqMethod, client, streamChan, output, seedRuns, seedErr, runs, userMessage, flusherOK, collection, orchPc,
                    stagePc, path, filter, flights, searchErr, language, prompt, dbCalls,
                    llmCalls, issuedDone, llmResult, respChan, wg, llmResp,
                    eventChanClosed, delivered >>

\* select case `event, ok := <-eventChan` with ok false: ServeHTTP returns
ServeHTTPClosed ==
    /\ hPc = "loop"
    /\ eventChanClosed
    /\ hPc' = "returned"
    /\ CancelCtx
    /\ UNCHANGED << reqMethod, client, streamChan, output, seedRuns, seedErr, runs, userMessage, flusherOK, collection, httpStatus,
                    orchPc, stagePc, path, filter, flights, searchErr, language, prompt,
                    dbCalls, llmCalls, issuedDone, llmResult, respChan, wg,
                    llmResp, eventChanClosed, delivered >>

\* select case `<-r.Context().Done()`: ServeHTTP prints a line and returns
ServeHTTPDone ==
    /\ hPc = "loop"
    /\ ctxDone
    /\ output' = Append(output, "Client disconnected.")
    /\ hPc' = "returned"
    /\ UNCHANGED << reqMethod, client, streamChan, seedRuns, seedErr, runs, userMessage, flusherOK, collection, ctxDone,
                    cancelledAt, httpStatus, orchPc, stagePc, path, filter,
                    flights, searchErr, language, prompt, dbCalls, llmCalls, issuedDone,
                    llmResult, respChan, wg, llmResp, eventChanClosed,
                    delivered >>

\* the client disconnects while the handler runs: the request context is
\* cancelled
ClientDisconnect ==
    /\ hPc # "returned"
    /\ ~ctxDone
    /\ CancelCtx
    /\ UNCHANGED << reqMethod, client, streamChan, output, seedRuns, seedErr, runs, userMessage, flusherOK, collection, httpStatus,
                    hPc, orchPc, stagePc, path, filter, flights, searchErr, language,
                    prompt, dbCalls, llmCalls, issuedDone, llmResult, respChan,
                    wg, llmResp, eventChanClosed, delivered >>

\* variant: a send that does not wait for the receiver and drops the event
PublishNoWait(ev) ==
    /\ ~eventChanClosed
    /\ delivered' = delivered

\* `eventChan <- ev` on the unbuffered channel completes when ServeHTTP takes
\* the receive case of its select; ServeHTTP writes the event and flushes
Publish(ev) ==
    /\ hPc = "loop"
    /\ ~eventChanClosed
    /\ delivered' = Append(delivered, ev)

(***************************************************************************)
(* ProcessMessage.                                                         *)
(***************************************************************************)
\* make(chan string, 1) twice, wg.Add(2) and the two `go func()`
StartStages ==
    /\ respChan' = [g \in Stages |-> <<>>]
    /\ wg' = 2
    /\ stagePc' = [g \in Stages |-> "send_invoking"]

\* a flight query: both loops over the synonyms map, the price patterns,
\* and the call of dbClient.SearchFlights
ClassifyFlight ==
    /\ orchPc = "start"
    /\ userMessage \in FlightQueries
    /\ filter' \in Filters[userMessage]
    /\ path' = "flight"
    /\ dbCalls' = dbCalls + 1
    /\ orchPc' = "insearch"
    /\ UNCHANGED << reqMethod, client, streamChan, output, seedRuns, seedErr, runs, userMessage, flusherOK, collection, ctxDone,
                    cancelledAt, httpStatus, hPc, stagePc, flights, searchErr, language,
                    prompt, llmCalls, issuedDone, llmResult, respChan, wg,
                    llmResp, eventChanClosed, delivered >>

\* not a flight query: language, prompts, and the two stage goroutines
ClassifyGeneral ==
    /\ orchPc = "start"
    /\ userMessage \notin FlightQueries
    /\ path' = "general"
    /\ language' = LanguageOf[userMessage]
    /\ prompt' = [i \in LLMs |->
                    IF i \in Stages THEN GeneralPrompts[userMessage][i] ELSE ""]
    /\ StartStages
    /\ orchPc' = "wait"
    /\ UNCHANGED << reqMethod, client, streamChan, output, seedRuns, seedErr, runs, userMessage, flusherOK, collection, ctxDone,
                    cancelledAt, httpStatus, hPc, filter, flights, searchErr, dbCalls,
                    llmCalls, issuedDone, llmResult, llmResp, eventChanClosed,
                    delivered >>

\* variant: only err is tested after SearchFlights, not len(flights) == 0
SearchReturnErrOnly ==
    /\ orchPc = "insearch"
    /\ \E err \in BOOLEAN :
         LET found == IF err THEN <<>> ELSE Found[collection, filter]
         IN  /\ flights' = found
             /\ searchErr' = err
             /\ IF err
                THEN /\ orchPc' = "send_noflights"
                     /\ UNCHANGED << language, prompt, respChan, wg, stagePc >>
                ELSE /\ language' = LanguageOf[userMessage]
                     /\ prompt' = [i \in LLMs |->
                                     IF i \in Stages
                                     THEN FlightPrompts[userMessage, collection, filter][i]
                                     ELSE ""]
                     /\ StartStages
                     /\ orchPc' = "wait"
    /\ UNCHANGED << reqMethod, client, streamChan, output, seedRuns, seedErr, runs, userMessage, flusherOK, collection, ctxDone,
                    cancelledAt, httpStatus, hPc, path, filter, dbCalls,
                    llmCalls, issuedDone, llmResult, llmResp, eventChanClosed,
                    delivered >>

\* SearchFlights returns an error, or the matching documents with no error
SearchReturn ==
    /\ orchPc = "insearch"
    /\ \E err \in BOOLEAN :
         LET found == IF err THEN <<>> ELSE Found[collection, filter]
         IN  /\ flights' = found
             /\ searchErr' = err
             /\ IF err \/ Len(found) = 0
                THEN /\ orchPc' = "send_noflights"
                     /\ UNCHANGED << language, prompt, respChan, wg, stagePc >>
                ELSE /\ language' = LanguageOf[userMessage]
                     /\ prompt' = [i \in LLMs |->
                                     IF i \in Stages
                                     THEN FlightPrompts[userMessage, collection, filter][i]
                                     ELSE ""]
                     /\ StartStages
                     /\ orchPc' = "wait"
    /\ UNCHANGED << reqMethod, client, streamChan, output, seedRuns, seedErr, runs, userMessage, flusherOK, collection, ctxDone,
                    cancelledAt, httpStatus, hPc, path, filter, dbCalls,
                    llmCalls, issuedDone, llmResult, llmResp, eventChanClosed,
                    delivered >>

\* variant: the return after the "No flights found" Message is missing
SendNoFlightsFallsThrough ==
    /\ orchPc = "send_noflights"
    /\ Publish(Event("Message", "No flights found for your query."))
    /\ StartStages
    /\ orchPc' = "wait"
    /\ UNCHANGED << reqMethod, client, streamChan, output, seedRuns, seedErr, runs, userMessage, flusherOK, collection, ctxDone,
                    cancelledAt, httpStatus, hPc, path, filter,
                    flights, searchErr, language, prompt, dbCalls, llmCalls, issuedDone,
                    llmResult, llmResp, eventChanClosed >>

\* variant: a run that found no flight adds one to the store (InsertFlights)
SendNoFlightsInserts ==
    /\ orchPc = "send_noflights"
    /\ Publish(Event("Message", "No flights found for your query."))
    /\ collection' = collection \o ExtraFlights
    /\ orchPc' = "ret"
    /\ UNCHANGED << reqMethod, client, streamChan, output, seedRuns, seedErr, runs, userMessage, flusherOK, ctxDone,
                    cancelledAt, httpStatus, hPc, stagePc, path, filter,
                    flights, searchErr, language, prompt, dbCalls, llmCalls, issuedDone,
                    llmResult, respChan, wg, llmResp, eventChanClosed >>

\* eventChan <- Message "No flights found for your query."; return
SendNoFlights ==
    /\ orchPc = "send_noflights"
    /\ Publish(Event("Message", "No flights found for your query."))
    /\ orchPc' = "ret"
    /\ UNCHANGED << reqMethod, client, streamChan, output, seedRuns, seedErr, runs, userMessage, flusherOK, collection, ctxDone,
                    cancelledAt, httpStatus, hPc, stagePc, path, filter,
                    flights, searchErr, language, prompt, dbCalls, llmCalls, issuedDone,
                    llmResult, respChan, wg, llmResp, eventChanClosed >>

\* stage goroutine g: eventChan <- Status "Invoking LLM g"
StageSendInvoking(g) ==
    /\ stagePc[g] = "send_invoking"
    /\ Publish(Event("Status", InvokingText(path, g)))
    /\ stagePc' = [stagePc EXCEPT ![g] = "call"]
    /\ UNCHANGED << reqMethod, client, streamChan, output, seedRuns, seedErr, runs, userMessage, flusherOK, collection, ctxDone,
                    cancelledAt, httpStatus, hPc, orchPc, path, filter,
                    flights, searchErr, language, prompt, dbCalls, llmCalls, issuedDone,
                    llmResult, respChan, wg, llmResp, eventChanClosed >>

\* variant: the LLM2 goroutine calls only when the LLM1 goroutine is done
StageIssueInTurn(g) ==
    /\ stagePc[g] = "call"
    /\ g = 1 \/ stagePc[1] = "done"
    /\ llmCalls' = [llmCalls EXCEPT ![g] = @ + 1]
    /\ issuedDone' = [issuedDone EXCEPT ![g] = ctxDone]
    /\ stagePc' = [stagePc EXCEPT ![g] = "incall"]
    /\ UNCHANGED << reqMethod, client, streamChan, output, seedRuns, seedErr, runs, userMessage, flusherOK, collection, ctxDone,
                    cancelledAt, httpStatus, hPc, orchPc, path, filter,
                    flights, searchErr, language, prompt, dbCalls, llmResult, respChan,
                    wg, llmResp, eventChanClosed, delivered >>

\* stage goroutine g calls ChatCompletion(ctx, promptLLMg)
StageIssue(g) ==
    /\ stagePc[g] = "call"
    /\ llmCalls' = [llmCalls EXCEPT ![g] = @ + 1]
    /\ issuedDone' = [issuedDone EXCEPT ![g] = ctxDone]
    /\ stagePc' = [stagePc EXCEPT ![g] = "incall"]
    /\ UNCHANGED << reqMethod, client, streamChan, output, seedRuns, seedErr, runs, userMessage, flusherOK, collection, ctxDone,
                    cancelledAt, httpStatus, hPc, orchPc, path, filter,
                    flights, searchErr, language, prompt, dbCalls, llmResult, respChan,
                    wg, llmResp, eventChanClosed, delivered >>

\* variant: a stage call that fails is issued a second time
StageReturnRetries(g) ==
    /\ stagePc[g] = "incall"
    /\ \E out \in Outcomes(ctxDone) :
          /\ issuedDone[g] => ~out.ok
          /\ llmResult' = [llmResult EXCEPT ![g] = out]
          /\ IF ~out.ok /\ llmCalls[g] < 2
             THEN /\ stagePc' = [stagePc EXCEPT ![g] = "call"]
                  /\ respChan' = respChan
             ELSE /\ stagePc' = [stagePc EXCEPT ![g] = "send_got"]
                  /\ respChan' = [respChan EXCEPT ![g] = Append(@, StageAnswer(g, out))]
    /\ UNCHANGED << reqMethod, client, streamChan, output, seedRuns, seedErr, runs, userMessage, flusherOK, collection, ctxDone,
                    cancelledAt, httpStatus, hPc, orchPc, path, filter,
                    flights, searchErr, language, prompt, dbCalls, llmCalls, issuedDone,
                    wg, llmResp, eventChanClosed, delivered >>

\* the call of stage g returns; the goroutine writes its answer, or the
\* error text, to its response channel
StageReturn(g) ==
    /\ stagePc[g] = "incall"
    /\ \E out \in Outcomes(ctxDone) :
          /\ issuedDone[g] => ~out.ok
          /\ llmResult' = [llmResult EXCEPT ![g] = out]
          /\ respChan' = [respChan EXCEPT ![g] = Append(@, StageAnswer(g, out))]
    /\ stagePc' = [stagePc EXCEPT ![g] = "send_got"]
    /\ UNCHANGED << reqMethod, client, streamChan, output, seedRuns, seedErr, runs, userMessage, flusherOK, collection, ctxDone,
                    cancelledAt, httpStatus, hPc, orchPc, path, filter,
                    flights, searchErr, language, prompt, dbCalls, llmCalls, issuedDone,
                    wg, llmResp, eventChanClosed, delivered >>

\* variant: a stage goroutine whose call failed returns without the event
StageSendGotSkipsOnError(g) ==
    /\ stagePc[g] = "send_got"
    /\ IF llmResult[g].ok
         THEN Publish(Event("Status", GotText(g)))
         ELSE delivered' = delivered
    /\ wg' = wg - 1
    /\ stagePc' = [stagePc EXCEPT ![g] = "done"]
    /\ UNCHANGED << reqMethod, client, streamChan, output, seedRuns, seedErr, runs, userMessage, flusherOK, collection, ctxDone,
                    cancelledAt, httpStatus, hPc, orchPc, path, filter,
                    flights, searchErr, language, prompt, dbCalls, llmCalls, issuedDone,
                    llmResult, respChan, llmResp, eventChanClosed >>

\* stage goroutine g: eventChan <- Status "Got response from LLM g", then
\* the deferred wg.Done()
StageSendGot(g) ==
    /\ stagePc[g] = "send_got"
    /\ Publish(Event("Status", GotText(g)))
    /\ wg' = wg - 1
    /\ stagePc' = [stagePc EXCEPT ![g] = "done"]
    /\ UNCHANGED << reqMethod, client, streamChan, output, seedRuns, seedErr, runs, userMessage, flusherOK, collection, ctxDone,
                    cancelledAt, httpStatus, hPc, orchPc, path, filter,
                    flights, searchErr, language, prompt, dbCalls, llmCalls, issuedDone,
                    llmResult, respChan, llmResp, eventChanClosed >>

\* a receive from a closed buffered channel: the buffered value, or ""
RecvClosed(ch) == IF ch = <<>> THEN "" ELSE Head(ch)

\* variant: the orchestrator waits for one stage goroutine only
JoinOne ==
    /\ orchPc = "wait"
    /\ wg <= 1
    /\ llmResp' = [g \in Stages |-> RecvClosed(respChan[g])]
    /\ respChan' = [g \in Stages |-> <<>>]
    /\ orchPc' = "send_invoking3"
    /\ UNCHANGED << reqMethod, client, streamChan, output, seedRuns, seedErr, runs, userMessage, flusherOK, collection, ctxDone,
                    cancelledAt, httpStatus, hPc, stagePc, path, filter,
                    flights, searchErr, language, prompt, dbCalls, llmCalls,
                    issuedDone, llmResult, wg, eventChanClosed, delivered >>

\* variant: llm1Resp is read from the channel of LLM 2 and llm2Resp from
\* that of LLM 1
JoinSwapped ==
    /\ orchPc = "wait"
    /\ wg = 0
    /\ llmResp' = [g \in Stages |-> RecvClosed(respChan[3 - g])]
    /\ respChan' = [g \in Stages |-> <<>>]
    /\ orchPc' = "send_invoking3"
    /\ UNCHANGED << reqMethod, client, streamChan, output, seedRuns, seedErr, runs, userMessage, flusherOK, collection, ctxDone,
                    cancelledAt, httpStatus, hPc, stagePc, path, filter,
                    flights, searchErr, language, prompt, dbCalls, llmCalls, issuedDone,
                    llmResult, wg, eventChanClosed, delivered >>

\* wg.Wait() returns; both response channels are closed and read
Join ==
    /\ orchPc = "wait"
    /\ wg = 0
    /\ llmResp' = [g \in Stages |-> RecvClosed(respChan[g])]
    /\ respChan' = [g \in Stages |-> <<>>]
    /\ orchPc' = "send_invoking3"
    /\ UNCHANGED << reqMethod, client, streamChan, output, seedRuns, seedErr, runs, userMessage, flusherOK, collection, ctxDone,
                    cancelledAt, httpStatus, hPc, stagePc, path, filter,
                    flights, searchErr, language, prompt, dbCalls, llmCalls, issuedDone,
                    llmResult, wg, eventChanClosed, delivered >>

\* eventChan <- Status "Invoking LLM 3 (aggregation)"
SendInvoking3 ==
    /\ orchPc = "send_invoking3"
    /\ Publish(Event("Status", "Invoking LLM 3 (aggregation)"))
    /\ orchPc' = "call3"
    /\ UNCHANGED << reqMethod, client, streamChan, output, seedRuns, seedErr, runs, userMessage, flusherOK, collection, ctxDone,
                    cancelledAt, httpStatus, hPc, stagePc, path, filter,
                    flights, searchErr, language, prompt, dbCalls, llmCalls, issuedDone,
                    llmResult, respChan, wg, llmResp, eventChanClosed >>

\* the aggregation prompt is built and llm3Client.ChatCompletion is called
AggIssue ==
    /\ orchPc = "call3"
    /\ prompt' = [prompt EXCEPT ![3] =
                    AggregationPrompt(path, language, llmResp[1], llmResp[2])]
    /\ llmCalls' = [llmCalls EXCEPT ![3] = @ + 1]
    /\ issuedDone' = [issuedDone EXCEPT ![3] = ctxDone]
    /\ orchPc' = "incall3"
    /\ UNCHANGED << reqMethod, client, streamChan, output, seedRuns, seedErr, runs, userMessage, flusherOK, collection, ctxDone,
                    cancelledAt, httpStatus, hPc, stagePc, path, filter,
                    flights, searchErr, language, dbCalls, llmResult, respChan, wg,
                    llmResp, eventChanClosed, delivered >>

\* the aggregation call returns
AggReturn ==
    /\ orchPc = "incall3"
    /\ \E out \in Outcomes(ctxDone) :
          /\ issuedDone[3] => ~out.ok
          /\ llmResult' = [llmResult EXCEPT ![3] = out]
          /\ orchPc' = IF out.ok THEN "send_got3" ELSE "send_aggfailed"
    /\ UNCHANGED << reqMethod, client, streamChan, output, seedRuns, seedErr, runs, userMessage, flusherOK, collection, ctxDone,
                    cancelledAt, httpStatus, hPc, stagePc, path, filter,
                    flights, searchErr, language, prompt, dbCalls, llmCalls, issuedDone,
                    respChan, wg, llmResp, eventChanClosed, delivered >>

\* variant: after the Status event of a failed aggregation the run returns
\* without the fallback Message
SendAggFailedReturns ==
    /\ orchPc = "send_aggfailed"
    /\ Publish(Event("Status", "LLM3 aggregation failed"))
    /\ orchPc' = "ret"
    /\ UNCHANGED << reqMethod, client, streamChan, output, seedRuns, seedErr, runs, userMessage, flusherOK, collection, ctxDone,
                    cancelledAt, httpStatus, hPc, stagePc, path, filter,
                    flights, searchErr, language, prompt, dbCalls, llmCalls,
                    issuedDone, llmResult, respChan, wg, llmResp,
                    eventChanClosed >>

\* err != nil: eventChan <- Status "LLM3 aggregation failed"
SendAggFailed ==
    /\ orchPc = "send_aggfailed"
    /\ Publish(Event("Status", "LLM3 aggregation failed"))
    /\ orchPc' = "send_combined"
    /\ UNCHANGED << reqMethod, client, streamChan, output, seedRuns, seedErr, runs, userMessage, flusherOK, collection, ctxDone,
                    cancelledAt, httpStatus, hPc, stagePc, path, filter,
                    flights, searchErr, language, prompt, dbCalls, llmCalls, issuedDone,
                    llmResult, respChan, wg, llmResp, eventChanClosed >>

\* err != nil: eventChan <- Message combined
SendCombined ==
    /\ orchPc = "send_combined"
    /\ Publish(Event("Message", Combined(path, llmResp[1], llmResp[2])))
    /\ orchPc' = "ret"
    /\ UNCHANGED << reqMethod, client, streamChan, output, seedRuns, seedErr, runs, userMessage, flusherOK, collection, ctxDone,
                    cancelledAt, httpStatus, hPc, stagePc, path, filter,
                    flights, searchErr, language, prompt, dbCalls, llmCalls, issuedDone,
                    llmResult, respChan, wg, llmResp, eventChanClosed >>

\* err == nil: eventChan <- Status "Got response from LLM 3"
SendGot3 ==
    /\ orchPc = "send_got3"
    /\ Publish(Event("Status", GotText(3)))
    /\ orchPc' = "send_message"
    /\ UNCHANGED << reqMethod, client, streamChan, output, seedRuns, seedErr, runs, userMessage, flusherOK, collection, ctxDone,
                    cancelledAt, httpStatus, hPc, stagePc, path, filter,
                    flights, searchErr, language, prompt, dbCalls, llmCalls, issuedDone,
                    llmResult, respChan, wg, llmResp, eventChanClosed >>

\* err == nil: eventChan <- Message llm3Resp
SendMessage ==
    /\ orchPc = "send_message"
    /\ Publish(Event("Message", llmResult[3].text))
    /\ orchPc' = "ret"
    /\ UNCHANGED << reqMethod, client, streamChan, output, seedRuns, seedErr, runs, userMessage, flusherOK, collection, ctxDone,
                    cancelledAt, httpStatus, hPc, stagePc, path, filter,
                    flights, searchErr, language, prompt, dbCalls, llmCalls, issuedDone,
                    llmResult, respChan, wg, llmResp, eventChanClosed >>

\* variant: eventChan is also closed while ProcessMessage waits for the
\* stage goroutines
CloseEventChanWhileWaiting ==
    /\ orchPc \in { "wait", "ret" }
    /\ eventChanClosed' = TRUE
    /\ orchPc' = "closed"
    /\ UNCHANGED << reqMethod, client, streamChan, output, seedRuns, seedErr, runs, userMessage, flusherOK, collection, ctxDone,
                    cancelledAt, httpStatus, hPc, stagePc, path, filter,
                    flights, searchErr, language, prompt, dbCalls, llmCalls, issuedDone,
                    llmResult, respChan, wg, llmResp, delivered >>

\* ProcessMessage has returned: the deferred close(eventChan) of the
\* orchestration goroutine
CloseEventChan ==
    /\ orchPc = "ret"
    /\ eventChanClosed' = TRUE
    /\ orchPc' = "closed"
    /\ UNCHANGED << reqMethod, client, streamChan, output, seedRuns, seedErr, runs, userMessage, flusherOK, collection, ctxDone,
                    cancelledAt, httpStatus, hPc, stagePc, path, filter,
                    flights, searchErr, language, prompt, dbCalls, llmCalls, issuedDone,
                    llmResult, respChan, wg, llmResp, delivered >>

Next ==
    \/ HandlerReject
    \/ HandlerStart
    \/ ServeHTTPEnter
    \/ ServeHTTPClosed
    \/ ServeHTTPDone
    \/ ClientDisconnect
    \/ ClassifyFlight
    \/ ClassifyGeneral
    \/ SearchReturn
    \/ SendNoFlights
    \/ \E g \in Stages : StageSendInvoking(g)
    \/ \E g \in Stages : StageIssue(g)
    \/ \E g \in Stages : StageReturn(g)
    \/ \E g \in Stages : StageSendGot(g)
    \/ Join
    \/ SendInvoking3
    \/ AggIssue
    \/ AggReturn
    \/ SendAggFailed
    \/ SendCombined
    \/ SendGot3
    \/ SendMessage
    \/ CloseEventChan

Spec == Init /\ [][Next]_vars

\* a step of the handler, of ServeHTTP, of a goroutine of the run, or the
\* return of a store or completion call: every step but the client's
RunStep ==
    \/ HandlerReject
    \/ HandlerStart
    \/ ServeHTTPEnter
    \/ ServeHTTPClosed
    \/ ServeHTTPDone
    \/ ClassifyFlight
    \/ ClassifyGeneral
    \/ SearchReturn
    \/ SendNoFlights
    \/ \E g \in Stages : StageSendInvoking(g)
    \/ \E g \in Stages : StageIssue(g)
    \/ \E g \in Stages : StageReturn(g)
    \/ \E g \in Stages : StageSendGot(g)
    \/ Join
    \/ SendInvoking3
    \/ AggIssue
    \/ AggReturn
    \/ SendAggFailed
    \/ SendCombined
    \/ SendGot3
    \/ SendMessage
    \/ CloseEventChan

\* The Go scheduler runs a goroutine that can take a step, calls to the
\* store and to the completion service return, and a select with a ready
\* case proceeds: the run does not stop while one of its steps is possible.
\* The client is free to disconnect or not.
FairSpec == Spec /\ WF_vars(RunStep)

(***************************************************************************)
(* SearchFlights called on its own, with arguments from bounded sets.      *)
(***************************************************************************)
\* origin and destination arguments: absent, city names, a part of a name,
\* a name in another case, a city no document has
SearchTerms == { "", "Madrid", "London", "Tokyo", "lon", "PARIS", "New York", "Oslo" }

\* maxPrice arguments: absent, and ceilings below, at and above prices of
\* the sample flights
SearchPrices == { 0, 100, 195, 540, 1000 }

SearchInputs ==
    [origin : SearchTerms, destination : SearchTerms, maxPrice : SearchPrices]

\* no request is being served; the arguments of the call are chosen
SearchInit ==
    /\ reqMethod = "POST"
    /\ output = <<>>
    /\ client = NoClient
    /\ streamChan = <<>>
    /\ userMessage = ""
    /\ flusherOK = TRUE
    /\ collection \in Stores
    /\ ctxDone = FALSE
    /\ cancelledAt = "none"
    /\ httpStatus = 0
    /\ hPc = "init"
    /\ orchPc = "idle"
    /\ stagePc = [g \in Stages |-> "none"]
    /\ path = ""
    /\ filter \in SearchInputs
    /\ flights = <<>>
    /\ searchErr = FALSE
    /\ language = ""
    /\ prompt = [i \in LLMs |-> ""]
    /\ dbCalls = 0
    /\ llmCalls = [i \in LLMs |-> 0]
    /\ issuedDone = [i \in LLMs |-> FALSE]
    /\ llmResult = [i \in LLMs |-> NoResult]
    /\ respChan = [g \in Stages |-> <<>>]
    /\ wg = 0
    /\ llmResp = [g \in Stages |-> ""]
    /\ eventChanClosed = FALSE
    /\ delivered = <<>>
    /\ seedRuns = 1
    /\ seedErr = FALSE
    /\ runs = [r \in Requests |-> InitRun]

\* MongoDBClient.SearchFlights: Find fails and nil, err is returned, or the
\* cursor yields the documents that match the filter
DbSearchFlights ==
    /\ orchPc = "idle" /\ dbCalls = 0
    /\ dbCalls' = 1
    /\ \E err \in BOOLEAN :
         /\ searchErr' = err
         /\ flights' = IF err THEN <<>>
                       ELSE SearchFlights(collection, filter.origin,
                                          filter.destination, filter.maxPrice)
    /\ UNCHANGED << reqMethod, client, streamChan, output, seedRuns, seedErr, runs, userMessage, flusherOK,
                    collection, ctxDone, cancelledAt, httpStatus, hPc, orchPc,
                    stagePc, path, filter, language, prompt, llmCalls,
                    issuedDone, llmResult, respChan, wg, llmResp,
                    eventChanClosed, delivered >>

SearchNext == DbSearchFlights

SearchSpec == SearchInit /\ [][SearchNext]_vars

(***************************************************************************)
(* The extraction of origin, destination and maxPrice on its own, on       *)
(* request bodies from a bounded set, followed by the SearchFlights call.  *)
(***************************************************************************)
\* how a body names an origin: not at all, or with "from" or "desde"
OriginPhrases == { "", " from Madrid", " desde londres", " from rome" }

\* how a body names other cities: not at all, with "to", " a " or "hacia",
\* or without a preposition (the origin again, or two cities)
DestinationPhrases ==
    { "", " to Paris", " a tokyo", " hacia roma", " madrid", " berlin valencia" }

\* how a body names a price: not at all, or with a pattern of pricePatterns
PricePhrases == { "", " under 0", " under 300", " menos de 195 euros" }

\* request bodies that pass the keyword test
ExtractTexts ==
    { "Flights" \o o \o d \o p :
        o \in OriginPhrases, d \in DestinationPhrases, p \in PricePhrases }
      \cup { "Que vuelos hay en general?" }

\* origin, destination, maxPrice of each body, for every order in which the
\* two loops may traverse the synonyms map
ExtractResults ==
    [t \in ExtractTexts |->
        { ExtractFilter(ToLower(t), order1, order2) :
            order1, order2 \in Traversals(PresentKeys(ToLower(t))) }]

\* no request is being served; the body is chosen
ExtractInit ==
    /\ reqMethod = "POST"
    /\ output = <<>>
    /\ client = NoClient
    /\ streamChan = <<>>
    /\ userMessage \in ExtractTexts
    /\ flusherOK = TRUE
    /\ collection \in Stores
    /\ ctxDone = FALSE
    /\ cancelledAt = "none"
    /\ httpStatus = 0
    /\ hPc = "init"
    /\ orchPc = "idle"
    /\ stagePc = [g \in Stages |-> "none"]
    /\ path = ""
    /\ filter = [origin |-> "", destination |-> "", maxPrice |-> 0]
    /\ flights = <<>>
    /\ searchErr = FALSE
    /\ language = ""
    /\ prompt = [i \in LLMs |-> ""]
    /\ dbCalls = 0
    /\ llmCalls = [i \in LLMs |-> 0]
    /\ issuedDone = [i \in LLMs |-> FALSE]
    /\ llmResult = [i \in LLMs |-> NoResult]
    /\ respChan = [g \in Stages |-> <<>>]
    /\ wg = 0
    /\ llmResp = [g \in Stages |-> ""]
    /\ eventChanClosed = FALSE
    /\ delivered = <<>>
    /\ seedRuns = 1
    /\ seedErr = FALSE
    /\ runs = [r \in Requests |-> InitRun]

\* ProcessMessage up to the SearchFlights call: the keyword test, the two
\* loops over the synonyms map and the loop over pricePatterns
ExtractEntities ==
    /\ orchPc = "idle" /\ path = ""
    /\ IsFlightQuery(ToLower(userMessage))
    /\ filter' \in ExtractResults[userMessage]
    /\ path' = "flight"
    /\ UNCHANGED << reqMethod, client, streamChan, output, seedRuns, seedErr, runs, userMessage, flusherOK, collection, ctxDone,
                    cancelledAt, httpStatus, hPc, orchPc, stagePc, flights, searchErr,
                    language, prompt, dbCalls, llmCalls, issuedDone, llmResult,
                    respChan, wg, llmResp, eventChanClosed, delivered >>

\* the SearchFlights call of ProcessMessage with the extracted arguments
ExtractSearch == path = "flight" /\ DbSearchFlights

ExtractNext == ExtractEntities \/ ExtractSearch

ExtractSpec == ExtractInit /\ [][ExtractNext]_vars

(***************************************************************************)
(* The methods of OpenAIClient on their own, against an API whose reaction *)
(* is drawn from a bounded set.                                            *)
(***************************************************************************)
\* c.apiKey: OPENAI_API_KEY unset, or set
ApiKeys == { "", "sk-test" }

\* the errors c.client.Do may return, a cancelled context among them
TransportErrors ==
    { "Post \"https://api.openai.com/v1/chat/completions\": context canceled",
      "Post \"https://api.openai.com/v1/chat/completions\": dial tcp: connection refused" }

\* resp.StatusCode
Statuses == { 200, 401, 429, 500 }

\* response bodies, with what json.Decode makes of them: not JSON, cut off,
\* no "choices" field, no choice, one choice with empty or non-empty
\* content, two choices
Bodies ==
    { [raw |-> "<html>Bad Gateway</html>", decodes |-> FALSE,
       decodeErr |-> "invalid character '<' looking for beginning of value",
       choices |-> <<>>],
      [raw |-> "{\"choices\":[{\"message\":{\"content\":\"answ", decodes |-> FALSE,
       decodeErr |-> "unexpected EOF", choices |-> <<>>],
      [raw |-> "{\"error\":{\"message\":\"quota\"}}", decodes |-> TRUE,
       decodeErr |-> "", choices |-> <<>>],
      [raw |-> "{\"choices\":[]}", decodes |-> TRUE, decodeErr |-> "",
       choices |-> <<>>],
      [raw |-> "{\"choices\":[{\"message\":{\"content\":\"\"}}]}", decodes |-> TRUE,
       decodeErr |-> "", choices |-> << "" >>],
      [raw |-> "{\"choices\":[{\"message\":{\"content\":\"answer 1\"}}]}",
       decodes |-> TRUE, decodeErr |-> "", choices |-> << "answer 1" >>],
      [raw |-> "{\"choices\":[{\"message\":{\"content\":\"answer 1\"}},{\"message\":{\"content\":\"answer 2\"}}]}",
       decodes |-> TRUE, decodeErr |-> "", choices |-> << "answer 1", "answer 2" >>] }

\* what c.client.Do returns: an error, or a response with a status and a body
Replies ==
    { [kind |-> "error", err |-> e, status |-> 0, body |-> "", decodes |-> FALSE,
       decodeErr |-> "", choices |-> <<>>] : e \in TransportErrors }
      \cup { [kind |-> "response", err |-> "", status |-> st, body |-> b.raw,
              decodes |-> b.decodes, decodeErr |-> b.decodeErr,
              choices |-> b.choices] : st \in Statuses, b \in Bodies }

\* variant: the status of the response is not tested
ChatCompletionIgnoresStatus(apiKey, reply) ==
    IF apiKey = ""
    THEN [text |-> "", err |-> "OpenAI API key not set", requests |-> 0]
    ELSE IF reply.kind = "error"
    THEN [text |-> "", err |-> "failed to make request: " \o reply.err, requests |-> 1]
    ELSE IF ~reply.decodes
    THEN [text |-> "", err |-> "failed to decode response: " \o reply.decodeErr,
          requests |-> 1]
    ELSE IF Len(reply.choices) = 0
    THEN [text |-> "", err |-> "no response choices returned", requests |-> 1]
    ELSE [text |-> reply.choices[1], err |-> "", requests |-> 1]

\* ChatCompletion: the text and the error it returns (err "" is nil) and the
\* number of HTTP requests it makes, when the API reacts with `reply`
ChatCompletion(apiKey, reply) ==
    IF apiKey = ""
    THEN [text |-> "", err |-> "OpenAI API key not set", requests |-> 0]
    ELSE IF reply.kind = "error"
    THEN [text |-> "", err |-> "failed to make request: " \o reply.err, requests |-> 1]
    ELSE IF reply.status # 200
    THEN [text |-> "",
          err |-> "OpenAI API error (status " \o IntToStr(reply.status) \o "): "
                  \o reply.body,
          requests |-> 1]
    ELSE IF ~reply.decodes
    THEN [text |-> "", err |-> "failed to decode response: " \o reply.decodeErr,
          requests |-> 1]
    ELSE IF Len(reply.choices) = 0
    THEN [text |-> "", err |-> "no response choices returned", requests |-> 1]
    ELSE [text |-> reply.choices[1], err |-> "", requests |-> 1]

\* variant: the channel is returned without being closed
StreamChatCompletionNotClosed(apiKey, reply) ==
    LET r == ChatCompletion(apiKey, reply)
    IN  IF r.err # ""
        THEN [chan |-> NilChan, err |-> r.err, requests |-> r.requests]
        ELSE [chan |-> [buf |-> << r.text >>, closed |-> FALSE, nil |-> FALSE],
              err |-> "", requests |-> r.requests]

\* StreamChatCompletion: the channel and the error it returns
StreamChatCompletion(apiKey, reply) ==
    LET r == ChatCompletion(apiKey, reply)
    IN  IF r.err # ""
        THEN [chan |-> NilChan, err |-> r.err, requests |-> r.requests]
        ELSE [chan |-> [buf |-> << r.text >>, closed |-> TRUE, nil |-> FALSE],
              err |-> "", requests |-> r.requests]

\* a client with its key and the reaction of the API, before a call
ClientStarts ==
    { [apiKey |-> k, reply |-> r, pc |-> "idle", requests |-> 0, text |-> "",
       err |-> "", chan |-> NilChan, received |-> <<>>] :
        k \in ApiKeys, r \in Replies }

\* no request is being served; the client and the reaction are chosen
ClientInit ==
    /\ reqMethod = "POST"
    /\ output = <<>>
    /\ client \in ClientStarts
    /\ streamChan = <<>>
    /\ userMessage = ""
    /\ flusherOK = TRUE
    /\ collection = SampleFlights
    /\ ctxDone = FALSE
    /\ cancelledAt = "none"
    /\ httpStatus = 0
    /\ hPc = "init"
    /\ orchPc = "idle"
    /\ stagePc = [g \in Stages |-> "none"]
    /\ path = ""
    /\ filter = [origin |-> "", destination |-> "", maxPrice |-> 0]
    /\ flights = <<>>
    /\ searchErr = FALSE
    /\ language = ""
    /\ prompt = [i \in LLMs |-> ""]
    /\ dbCalls = 0
    /\ llmCalls = [i \in LLMs |-> 0]
    /\ issuedDone = [i \in LLMs |-> FALSE]
    /\ llmResult = [i \in LLMs |-> NoResult]
    /\ respChan = [g \in Stages |-> <<>>]
    /\ wg = 0
    /\ llmResp = [g \in Stages |-> ""]
    /\ eventChanClosed = FALSE
    /\ delivered = <<>>
    /\ seedRuns = 1
    /\ seedErr = FALSE
    /\ runs = [r \in Requests |-> InitRun]

ClientUnchanged ==
    UNCHANGED << reqMethod, streamChan, output, seedRuns, seedErr, runs, userMessage,
                 flusherOK, collection, ctxDone, cancelledAt, httpStatus, hPc, orchPc,
                 stagePc, path, filter, flights, searchErr, language, prompt, dbCalls,
                 llmCalls, issuedDone, llmResult, respChan, wg, llmResp,
                 eventChanClosed, delivered >>

\* c.ChatCompletion(ctx, prompt) is called and returns
CallChatCompletion ==
    /\ client.pc = "idle"
    /\ LET r == ChatCompletion(client.apiKey, client.reply)
       IN  client' = [client EXCEPT !.pc = "chat", !.text = r.text, !.err = r.err,
                                    !.requests = r.requests]
    /\ ClientUnchanged

\* c.StreamChatCompletion(ctx, prompt) is called and returns
CallStreamChatCompletion ==
    /\ client.pc = "idle"
    /\ LET r == StreamChatCompletion(client.apiKey, client.reply)
       IN  client' = [client EXCEPT !.pc = "stream", !.chan = r.chan, !.err = r.err,
                                    !.requests = r.requests]
    /\ ClientUnchanged

\* `for chunk := range streamChan` of the caller: one chunk is received
RangeReceive ==
    /\ client.pc = "stream" /\ client.err = ""
    /\ client.chan.buf # <<>>
    /\ client' = [client EXCEPT !.received = Append(@, Head(client.chan.buf)),
                                !.chan.buf = Tail(@)]
    /\ ClientUnchanged

\* `for chunk := range streamChan` of the caller: the channel is closed and
\* empty, the loop ends
RangeEnd ==
    /\ client.pc = "stream" /\ client.err = ""
    /\ client.chan.buf = <<>> /\ client.chan.closed
    /\ client' = [client EXCEPT !.pc = "ranged"]
    /\ ClientUnchanged

ClientNext ==
    \/ CallChatCompletion
    \/ CallStreamChatCompletion
    \/ RangeReceive
    \/ RangeEnd

ClientSpec == ClientInit /\ [][ClientNext]_vars

(***************************************************************************)
(* ServeHTTP on its own: the bytes it writes for the events it receives.   *)
(***************************************************************************)
\* events ProcessMessage can send: Status events, Messages of one line, the
\* empty Message, an answer of two lines and the fallback text
SseEvents ==
    { Event("Status", "Invoking LLM 1"),
      Event("Status", "Got response from LLM 3"),
      Event("Message", "No flights found for your query."),
      Event("Message", "answer 1"),
      Event("Message", ""),
      Event("Message", "answer 1\nanswer 2"),
      Event("Message", Combined("general", "answer 1", "answer 2")) }

\* fmt.Fprintf(w, "event: %s\n", event.Type) and
\* fmt.Fprintf(w, "data: %s\n\n", event.Data)
WriteEvent(ev) == "event: " \o ev.Type \o "\n" \o "data: " \o ev.Data \o "\n\n"

RECURSIVE WriteEvents(_)
\* the bytes of the response body after the events evs
WriteEvents(evs) ==
    IF evs = <<>> THEN "" ELSE WriteEvent(Head(evs)) \o WriteEvents(Tail(evs))

\* the response body
Written == WriteEvents(delivered)

\* ServeHTTP is in its loop and no event was sent yet
SseInit ==
    /\ reqMethod = "POST"
    /\ output = <<>>
    /\ client = NoClient
    /\ streamChan = <<>>
    /\ userMessage = "Explain quantum teleportation in simple terms"
    /\ flusherOK = TRUE
    /\ collection = SampleFlights
    /\ ctxDone = FALSE
    /\ cancelledAt = "none"
    /\ httpStatus = 0
    /\ hPc = "loop"
    /\ orchPc = "start"
    /\ stagePc = [g \in Stages |-> "none"]
    /\ path = ""
    /\ filter = [origin |-> "", destination |-> "", maxPrice |-> 0]
    /\ flights = <<>>
    /\ searchErr = FALSE
    /\ language = ""
    /\ prompt = [i \in LLMs |-> ""]
    /\ dbCalls = 0
    /\ llmCalls = [i \in LLMs |-> 0]
    /\ issuedDone = [i \in LLMs |-> FALSE]
    /\ llmResult = [i \in LLMs |-> NoResult]
    /\ respChan = [g \in Stages |-> <<>>]
    /\ wg = 0
    /\ llmResp = [g \in Stages |-> ""]
    /\ eventChanClosed = FALSE
    /\ delivered = <<>>
    /\ seedRuns = 1
    /\ seedErr = FALSE
    /\ runs = [r \in Requests |-> InitRun]

\* ServeHTTP receives an event, writes it and flushes
SseReceive ==
    /\ Len(delivered) < MaxEvents
    /\ \E ev \in SseEvents : Publish(ev)
    /\ UNCHANGED << reqMethod, client, streamChan, output, seedRuns, seedErr, runs, userMessage, flusherOK, collection, ctxDone,
                    cancelledAt, httpStatus, hPc, orchPc, stagePc, path, filter,
                    flights, searchErr, language, prompt, dbCalls, llmCalls, issuedDone,
                    llmResult, respChan, wg, llmResp, eventChanClosed >>

SseNext == SseReceive

SseSpec == SseInit /\ [][SseNext]_vars

(***************************************************************************)
(* ProcessMessageStream, run by the goroutine of the handler in the place  *)
(* of ProcessMessage, with the same consumer.                              *)
(***************************************************************************)
\* the chunks a stream may deliver before it is closed
ChunkSeqs == UNION { [1..n -> Completions] : n \in 0..MaxChunks }

\* streamChan, err of StreamChatCompletion of an LLMClient: a stream of
\* chunks and no error, or no stream and an error
StreamOutcomes(cancelled) ==
    { [ok |-> TRUE, text |-> "", chunks |-> c] : c \in ChunkSeqs }
      \cup { [ok |-> FALSE, text |-> "no response choices returned", chunks |-> <<>>] }
      \cup IF cancelled
           THEN { [ok |-> FALSE, text |-> "failed to make request: context canceled",
                   chunks |-> <<>>] }
           ELSE {}

\* a valid request has arrived
StreamInit ==
    /\ reqMethod = "POST"
    /\ output = <<>>
    /\ client = NoClient
    /\ streamChan = <<>>
    /\ userMessage \in Queries
    /\ flusherOK = TRUE
    /\ collection \in Stores
    /\ ctxDone = FALSE
    /\ cancelledAt = "none"
    /\ httpStatus = 0
    /\ hPc = "init"
    /\ orchPc = "idle"
    /\ stagePc = [g \in Stages |-> "none"]
    /\ path = ""
    /\ filter = [origin |-> "", destination |-> "", maxPrice |-> 0]
    /\ flights = <<>>
    /\ searchErr = FALSE
    /\ language = ""
    /\ prompt = [i \in LLMs |-> ""]
    /\ dbCalls = 0
    /\ llmCalls = [i \in LLMs |-> 0]
    /\ issuedDone = [i \in LLMs |-> FALSE]
    /\ llmResult = [i \in LLMs |-> NoResult]
    /\ respChan = [g \in Stages |-> <<>>]
    /\ wg = 0
    /\ llmResp = [g \in Stages |-> ""]
    /\ eventChanClosed = FALSE
    /\ delivered = <<>>
    /\ seedRuns = 1
    /\ seedErr = FALSE
    /\ runs = [r \in Requests |-> InitRun]

\* isFlightQuery: both loops over the synonyms map and the call of
\* dbClient.SearchFlights
StreamClassifyFlight ==
    /\ orchPc = "start"
    /\ userMessage \in StreamFlightQueries
    /\ filter' \in StreamFilters[userMessage]
    /\ path' = "flight"
    /\ dbCalls' = dbCalls + 1
    /\ orchPc' = "insearch"
    /\ UNCHANGED << reqMethod, client, streamChan, output, seedRuns, seedErr, runs, userMessage, flusherOK, collection, ctxDone,
                    cancelledAt, httpStatus, hPc, stagePc, flights, searchErr, language,
                    prompt, llmCalls, issuedDone, llmResult, respChan, wg,
                    llmResp, eventChanClosed, delivered >>

\* not isFlightQuery: language, prompts, and the two stage goroutines
StreamClassifyGeneral ==
    /\ orchPc = "start"
    /\ userMessage \notin StreamFlightQueries
    /\ path' = "general"
    /\ language' = LanguageOf[userMessage]
    /\ prompt' = [i \in LLMs |->
                    IF i \in Stages THEN GeneralPrompts[userMessage][i] ELSE ""]
    /\ StartStages
    /\ orchPc' = "wait"
    /\ UNCHANGED << reqMethod, client, streamChan, output, seedRuns, seedErr, runs, userMessage, flusherOK, collection, ctxDone,
                    cancelledAt, httpStatus, hPc, filter, flights, searchErr, dbCalls,
                    llmCalls, issuedDone, llmResult, llmResp, eventChanClosed,
                    delivered >>

\* SearchFlights returns an error, or the matching documents with no error
StreamSearchReturn ==
    /\ orchPc = "insearch"
    /\ \E err \in BOOLEAN :
         LET found == IF err THEN <<>> ELSE StreamFound[collection, filter]
         IN  /\ flights' = found
             /\ searchErr' = err
             /\ IF err \/ Len(found) = 0
                THEN /\ orchPc' = "send_noflights"
                     /\ UNCHANGED << prompt, respChan, wg, stagePc >>
                ELSE /\ prompt' = [i \in LLMs |->
                                     IF i \in Stages
                                     THEN StreamFlightPrompts[collection, filter][i]
                                     ELSE ""]
                     /\ StartStages
                     /\ orchPc' = "wait"
    /\ UNCHANGED << reqMethod, client, streamChan, output, seedRuns, seedErr, runs, userMessage, flusherOK, collection, ctxDone,
                    cancelledAt, httpStatus, hPc, path, filter, dbCalls, language,
                    llmCalls, issuedDone, llmResult, llmResp, eventChanClosed,
                    delivered >>

\* stage goroutine g: eventChan <- Status "Invoking LLM g"
StreamStageSendInvoking(g) ==
    /\ stagePc[g] = "send_invoking"
    /\ Publish(Event("Status", "Invoking LLM " \o IntToStr(g)))
    /\ stagePc' = [stagePc EXCEPT ![g] = "call"]
    /\ UNCHANGED << reqMethod, client, streamChan, output, seedRuns, seedErr, runs, userMessage, flusherOK, collection, ctxDone,
                    cancelledAt, httpStatus, hPc, orchPc, path, filter,
                    flights, searchErr, language, prompt, dbCalls, llmCalls, issuedDone,
                    llmResult, respChan, wg, llmResp, eventChanClosed >>

\* the aggregation prompt is built and llm3Client.StreamChatCompletion is
\* called
StreamAggIssue ==
    /\ orchPc = "call3"
    /\ prompt' = [prompt EXCEPT ![3] =
                    StreamAggregationPrompt(path, language, llmResp[1], llmResp[2])]
    /\ llmCalls' = [llmCalls EXCEPT ![3] = @ + 1]
    /\ issuedDone' = [issuedDone EXCEPT ![3] = ctxDone]
    /\ orchPc' = "instream3"
    /\ UNCHANGED << reqMethod, client, streamChan, output, seedRuns, seedErr, runs, userMessage, flusherOK, collection, ctxDone,
                    cancelledAt, httpStatus, hPc, stagePc, path, filter,
                    flights, searchErr, language, dbCalls, llmResult, respChan, wg,
                    llmResp, eventChanClosed, delivered >>

\* StreamChatCompletion returns
StreamAggReturn ==
    /\ orchPc = "instream3"
    /\ \E out \in StreamOutcomes(ctxDone) :
          /\ issuedDone[3] => ~out.ok
          /\ llmResult' = [llmResult EXCEPT ![3] = [ok |-> out.ok, text |-> out.text]]
          /\ streamChan' = out.chunks
          /\ orchPc' = IF out.ok THEN "send_got3" ELSE "send_aggfailed"
    /\ UNCHANGED << reqMethod, client, output, seedRuns, seedErr, runs, userMessage, flusherOK, collection, ctxDone,
                    cancelledAt, httpStatus, hPc, stagePc, path, filter,
                    flights, searchErr, language, prompt, dbCalls, llmCalls, issuedDone,
                    respChan, wg, llmResp, eventChanClosed, delivered >>

\* err != nil: eventChan <- Message combined
StreamSendCombined ==
    /\ orchPc = "send_combined"
    /\ Publish(Event("Message", StreamCombined(path, llmResp[1], llmResp[2])))
    /\ orchPc' = "ret"
    /\ UNCHANGED << reqMethod, client, streamChan, output, seedRuns, seedErr, runs, userMessage, flusherOK, collection, ctxDone,
                    cancelledAt, httpStatus, hPc, stagePc, path, filter,
                    flights, searchErr, language, prompt, dbCalls, llmCalls, issuedDone,
                    llmResult, respChan, wg, llmResp, eventChanClosed >>

\* err == nil: eventChan <- Status "Got response from LLM 3"
StreamSendGot3 ==
    /\ orchPc = "send_got3"
    /\ Publish(Event("Status", GotText(3)))
    /\ orchPc' = "range"
    /\ UNCHANGED << reqMethod, client, streamChan, output, seedRuns, seedErr, runs, userMessage, flusherOK, collection, ctxDone,
                    cancelledAt, httpStatus, hPc, stagePc, path, filter,
                    flights, searchErr, language, prompt, dbCalls, llmCalls, issuedDone,
                    llmResult, respChan, wg, llmResp, eventChanClosed >>

\* `for chunk := range streamChan`: eventChan <- Message chunk
StreamSendChunk ==
    /\ orchPc = "range"
    /\ streamChan # <<>>
    /\ Publish(Event("Message", Head(streamChan)))
    /\ streamChan' = Tail(streamChan)
    /\ UNCHANGED << reqMethod, client, output, seedRuns, seedErr, runs, userMessage, flusherOK, collection, ctxDone,
                    cancelledAt, httpStatus, hPc, orchPc, stagePc, path, filter,
                    flights, searchErr, language, prompt, dbCalls, llmCalls, issuedDone,
                    llmResult, respChan, wg, llmResp, eventChanClosed >>

\* `for chunk := range streamChan`: the stream is closed, the loop ends and
\* ProcessMessageStream returns
StreamRangeEnd ==
    /\ orchPc = "range"
    /\ streamChan = <<>>
    /\ orchPc' = "ret"
    /\ UNCHANGED << reqMethod, client, streamChan, output, seedRuns, seedErr, runs, userMessage, flusherOK, collection, ctxDone,
                    cancelledAt, httpStatus, hPc, stagePc, path, filter,
                    flights, searchErr, language, prompt, dbCalls, llmCalls, issuedDone,
                    llmResult, respChan, wg, llmResp, eventChanClosed, delivered >>

StreamNext ==
    \/ HandlerStart
    \/ ServeHTTPEnter
    \/ ServeHTTPClosed
    \/ ServeHTTPDone
    \/ ClientDisconnect
    \/ StreamClassifyFlight
    \/ StreamClassifyGeneral
    \/ StreamSearchReturn
    \/ SendNoFlights
    \/ \E g \in Stages :
          \/ StreamStageSendInvoking(g)
          \/ StageIssue(g)
          \/ StageReturn(g)
          \/ StageSendGot(g)
    \/ Join
    \/ SendInvoking3
    \/ StreamAggIssue
    \/ StreamAggReturn
    \/ SendAggFailed
    \/ StreamSendCombined
    \/ StreamSendGot3
    \/ StreamSendChunk
    \/ StreamRangeEnd
    \/ CloseEventChan

StreamSpec == StreamInit /\ [][StreamNext]_vars

(***************************************************************************)
(* Seeding: main calls SeedFlights at every start of the server.           *)
(***************************************************************************)
\* the flights of SeedFlightData
OldSeedFlights ==
    << Flight("FL101", "New York", "London", "2025-08-10T09:00:00Z", "2025-08-10T17:00:00Z", 550, 120),
       Flight("FL102", "London", "New York", "2025-08-11T10:00:00Z", "2025-08-11T18:00:00Z", 520, 100),
       Flight("FL203", "Paris", "Rome", "2025-08-12T14:30:00Z", "2025-08-12T16:00:00Z", 120, 50),
       Flight("FL204", "Rome", "Paris", "2025-08-13T11:00:00Z", "2025-08-13T12:30:00Z", 110, 60),
       Flight("FL305", "New York", "Los Angeles", "2025-08-15T08:00:00Z", "2025-08-15T11:00:00Z", 300, 200) >>

\* the collection before the first start: empty, or holding a document
\* that InsertFlights added, the flights of SeedFlightData, or both
SeedStarts == { <<>>, ExtraFlights, OldSeedFlights, OldSeedFlights \o ExtraFlights }

\* the position of the first document with that flight_number, 0 if none
FirstWithNumber(coll, num) ==
    LET S == { i \in 1..Len(coll) : coll[i].FlightNumber = num }
    IN  IF S = {} THEN 0 ELSE CHOOSE i \in S : \A j \in S : i <= j

\* variant: the flight is inserted whether or not its number is present
InsertOne(coll, f) == Append(coll, f)

\* UpdateOne({"flight_number": f.FlightNumber}, {"$set": f}) with upsert
UpsertOne(coll, f) ==
    LET i == FirstWithNumber(coll, f.FlightNumber)
    IN  IF i = 0 THEN Append(coll, f) ELSE [coll EXCEPT ![i] = f]

RECURSIVE UpsertLoop(_, _, _)
\* the collection after the first k iterations of the loop over flights
UpsertLoop(coll, fs, k) ==
    IF k = 0 THEN coll ELSE UpsertOne(UpsertLoop(coll, fs, k - 1), fs[k])

SeedInit ==
    /\ reqMethod = "POST"
    /\ output = <<>>
    /\ client = NoClient
    /\ streamChan = <<>>
    /\ userMessage = ""
    /\ flusherOK = TRUE
    /\ collection \in SeedStarts
    /\ ctxDone = FALSE
    /\ cancelledAt = "none"
    /\ httpStatus = 0
    /\ hPc = "init"
    /\ orchPc = "idle"
    /\ stagePc = [g \in Stages |-> "none"]
    /\ path = ""
    /\ filter = [origin |-> "", destination |-> "", maxPrice |-> 0]
    /\ flights = <<>>
    /\ searchErr = FALSE
    /\ language = ""
    /\ prompt = [i \in LLMs |-> ""]
    /\ dbCalls = 0
    /\ llmCalls = [i \in LLMs |-> 0]
    /\ issuedDone = [i \in LLMs |-> FALSE]
    /\ llmResult = [i \in LLMs |-> NoResult]
    /\ respChan = [g \in Stages |-> <<>>]
    /\ wg = 0
    /\ llmResp = [g \in Stages |-> ""]
    /\ eventChanClosed = FALSE
    /\ delivered = <<>>
    /\ seedRuns = 0
    /\ seedErr = FALSE
    /\ runs = [r \in Requests |-> InitRun]

\* MongoDBClient.SeedFlights: the loop upserts k flights; it returns nil
\* after the last one, or the error of an UpdateOne (which the server may
\* or may not have applied)
SeedFlights ==
    /\ seedRuns < MaxSeedRuns
    /\ \E k \in 0..Len(SampleFlights), err \in BOOLEAN :
         /\ k < Len(SampleFlights) => err
         /\ collection' = UpsertLoop(collection, SampleFlights, k)
         /\ seedErr' = err
    /\ seedRuns' = seedRuns + 1
    /\ UNCHANGED << reqMethod, client, streamChan, output, runs, userMessage, flusherOK, ctxDone, cancelledAt,
                    httpStatus, hPc, orchPc, stagePc, path, filter, flights,
                    searchErr, language, prompt, dbCalls, llmCalls,
                    issuedDone, llmResult, respChan, wg, llmResp,
                    eventChanClosed, delivered >>

SeedNext == SeedFlights

SeedSpec == SeedInit /\ [][SeedNext]_vars

(***************************************************************************)
(* Several requests served at the same time.  Each request has its own     *)
(* handler, eventChan, ServeHTTP, orchestration goroutine and stage        *)
(* goroutines; the Orchestrator, its clients and the collection are the    *)
(* same for all.  The clients of the load test wait for the whole          *)
(* response, and the ResponseWriter of net/http is an http.Flusher.        *)
(* A step of a request is given by the states it may lead to and the event *)
(* it sends on the eventChan of the request, if any.                       *)
(***************************************************************************)
\* a step that sends nothing
Step(t) == { [next |-> t, send |-> <<>>] }

\* a step that is `eventChan <- ev`: it completes when the ServeHTTP of the
\* request takes the receive case of its select
StepSend(s, t, ev) ==
    IF s.hPc = "loop" /\ ~s.closed THEN { [next |-> t, send |-> << ev >>] } ELSE {}

\* the handler makes eventChan, starts the orchestration goroutine and
\* calls ServeHTTP
OpHandlerStart(s) ==
    IF s.hPc = "init"
    THEN Step([s EXCEPT !.hPc = "serve", !.orchPc = "start"])
    ELSE {}

\* ServeHTTP sets the headers, finds the http.Flusher and enters its loop
OpServeHTTPEnter(s) ==
    IF s.hPc = "serve" THEN Step([s EXCEPT !.hPc = "loop"]) ELSE {}

\* ServeHTTP receives from the closed eventChan and returns
OpServeHTTPClosed(s) ==
    IF s.hPc = "loop" /\ s.closed THEN Step([s EXCEPT !.hPc = "returned"]) ELSE {}

\* make(chan string, 1) twice, wg.Add(2) and the two `go func()`
OpStartStages(s) ==
    [s EXCEPT !.respChan = [g \in Stages |-> <<>>],
              !.wg = 2,
              !.stagePc = [g \in Stages |-> "send_invoking"]]

\* a flight query: the extraction and the call of dbClient.SearchFlights
OpClassifyFlight(s, r) ==
    IF s.orchPc = "start" /\ RequestIsFlight[r]
    THEN { [next |-> [s EXCEPT !.path = "flight", !.filter = f,
                               !.orchPc = "insearch"],
            send |-> <<>>] : f \in RequestFilters[r] }
    ELSE {}

\* not a flight query: the two stage goroutines
OpClassifyGeneral(s, r) ==
    IF s.orchPc = "start" /\ ~RequestIsFlight[r]
    THEN Step([OpStartStages(s) EXCEPT !.path = "general", !.orchPc = "wait"])
    ELSE {}

\* SearchFlights returns an error, or the matching documents with no error
OpSearchReturn(s, coll) ==
    IF s.orchPc = "insearch"
    THEN { LET found == IF err THEN <<>> ELSE RequestFound[coll, s.filter]
               t == [s EXCEPT !.flights = found, !.searchErr = err]
           IN  [next |-> IF err \/ Len(found) = 0
                         THEN [t EXCEPT !.orchPc = "send_noflights"]
                         ELSE [OpStartStages(t) EXCEPT !.orchPc = "wait"],
                send |-> <<>>] : err \in BOOLEAN }
    ELSE {}

\* eventChan <- Message "No flights found for your query."; return
OpSendNoFlights(s) ==
    IF s.orchPc = "send_noflights"
    THEN StepSend(s, [s EXCEPT !.orchPc = "ret"],
                  Event("Message", "No flights found for your query."))
    ELSE {}

\* stage goroutine g: eventChan <- Status "Invoking LLM g"
OpStageSendInvoking(s, g) ==
    IF s.stagePc[g] = "send_invoking"
    THEN StepSend(s, [s EXCEPT !.stagePc[g] = "call"],
                  Event("Status", InvokingText(s.path, g)))
    ELSE {}

\* stage goroutine g calls ChatCompletion
OpStageIssue(s, g) ==
    IF s.stagePc[g] = "call" THEN Step([s EXCEPT !.stagePc[g] = "incall"]) ELSE {}

\* the call of stage g returns; the goroutine writes its answer, or the
\* error text, to its response channel
OpStageReturn(s, g) ==
    IF s.stagePc[g] = "incall"
    THEN { [next |-> [s EXCEPT !.stagePc[g] = "send_got",
                               !.respChan[g] = Append(@, StageAnswer(g, out))],
            send |-> <<>>] : out \in RequestOutcomes }
    ELSE {}

\* variant: the goroutine returns without wg.Done()
OpStageSendGotNoDone(s, g) ==
    IF s.stagePc[g] = "send_got"
    THEN StepSend(s, [s EXCEPT !.stagePc[g] = "done"],
                  Event("Status", GotText(g)))
    ELSE {}

\* stage goroutine g: eventChan <- Status "Got response from LLM g", then
\* the deferred wg.Done()
OpStageSendGot(s, g) ==
    IF s.stagePc[g] = "send_got"
    THEN StepSend(s, [s EXCEPT !.stagePc[g] = "done", !.wg = @ - 1],
                  Event("Status", GotText(g)))
    ELSE {}

\* wg.Wait() returns; both response channels are closed and read
OpJoin(s) ==
    IF s.orchPc = "wait" /\ s.wg = 0
    THEN Step([s EXCEPT !.llmResp = [g \in Stages |-> RecvClosed(s.respChan[g])],
                        !.respChan = [g \in Stages |-> <<>>],
                        !.orchPc = "send_invoking3"])
    ELSE {}

\* eventChan <- Status "Invoking LLM 3 (aggregation)"
OpSendInvoking3(s) ==
    IF s.orchPc = "send_invoking3"
    THEN StepSend(s, [s EXCEPT !.orchPc = "call3"],
                  Event("Status", "Invoking LLM 3 (aggregation)"))
    ELSE {}

\* llm3Client.ChatCompletion is called
OpAggIssue(s) ==
    IF s.orchPc = "call3" THEN Step([s EXCEPT !.orchPc = "incall3"]) ELSE {}

\* the aggregation call returns
OpAggReturn(s) ==
    IF s.orchPc = "incall3"
    THEN { [next |-> [s EXCEPT !.llm3Resp = IF out.ok THEN out.text ELSE "",
                               !.orchPc = IF out.ok THEN "send_got3"
                                          ELSE "send_aggfailed"],
            send |-> <<>>] : out \in RequestOutcomes }
    ELSE {}

\* err != nil: eventChan <- Status "LLM3 aggregation failed"
OpSendAggFailed(s) ==
    IF s.orchPc = "send_aggfailed"
    THEN StepSend(s, [s EXCEPT !.orchPc = "send_combined"],
                  Event("Status", "LLM3 aggregation failed"))
    ELSE {}

\* err != nil: eventChan <- Message combined
OpSendCombined(s) ==
    IF s.orchPc = "send_combined"
    THEN StepSend(s, [s EXCEPT !.orchPc = "ret"],
                  Event("Message", Combined(s.path, s.llmResp[1], s.llmResp[2])))
    ELSE {}

\* err == nil: eventChan <- Status "Got response from LLM 3"
OpSendGot3(s) ==
    IF s.orchPc = "send_got3"
    THEN StepSend(s, [s EXCEPT !.orchPc = "send_message"],
                  Event("Status", "Got response from LLM 3"))
    ELSE {}

\* err == nil: eventChan <- Message llm3Resp
OpSendMessage(s) ==
    IF s.orchPc = "send_message"
    THEN StepSend(s, [s EXCEPT !.orchPc = "ret"], Event("Message", s.llm3Resp))
    ELSE {}

\* ProcessMessage has returned: the deferred close(eventChan)
OpCloseEventChan(s) ==
    IF s.orchPc = "ret"
    THEN Step([s EXCEPT !.orchPc = "closed", !.closed = TRUE])
    ELSE {}

\* what a request has received, with the request whose goroutine sent it
Received(r, ev) == [from |-> r, ev |-> ev]

\* variant: one eventChan for the whole server, read by the first handler
DeliverToFirst(rs, r, ev) ==
    [rs EXCEPT ![1].delivered = Append(@, Received(r, ev))]

\* the handler of request r made the eventChan its goroutines send on, and
\* passed it to its own ServeHTTP
Deliver(rs, r, ev) ==
    [rs EXCEPT ![r].delivered = Append(@, Received(r, ev))]

\* the variables of the single request
singleVars ==
    << reqMethod, client, streamChan, output, seedRuns, seedErr, userMessage, flusherOK, collection,
       ctxDone, cancelledAt, httpStatus, hPc, orchPc, stagePc, path, filter,
       flights, searchErr, language, prompt, dbCalls, llmCalls, issuedDone,
       llmResult, respChan, wg, llmResp, eventChanClosed, delivered >>

\* request r takes one of the steps `outs`
Apply(r, outs) ==
    /\ \E o \in outs :
         runs' = IF o.send = <<>>
                 THEN [runs EXCEPT ![r] = o.next]
                 ELSE Deliver([runs EXCEPT ![r] = o.next], r, o.send[1])
    /\ UNCHANGED singleVars

RunHandlerStart(r) == Apply(r, OpHandlerStart(runs[r]))
RunServeHTTPEnter(r) == Apply(r, OpServeHTTPEnter(runs[r]))
RunServeHTTPClosed(r) == Apply(r, OpServeHTTPClosed(runs[r]))
RunClassifyFlight(r) == Apply(r, OpClassifyFlight(runs[r], r))
RunClassifyGeneral(r) == Apply(r, OpClassifyGeneral(runs[r], r))
RunSearchReturn(r) == Apply(r, OpSearchReturn(runs[r], collection))
RunSendNoFlights(r) == Apply(r, OpSendNoFlights(runs[r]))
RunStageSendInvoking(r, g) == Apply(r, OpStageSendInvoking(runs[r], g))
RunStageIssue(r, g) == Apply(r, OpStageIssue(runs[r], g))
RunStageReturn(r, g) == Apply(r, OpStageReturn(runs[r], g))
RunStageSendGot(r, g) == Apply(r, OpStageSendGot(runs[r], g))
RunJoin(r) == Apply(r, OpJoin(runs[r]))
RunSendInvoking3(r) == Apply(r, OpSendInvoking3(runs[r]))
RunAggIssue(r) == Apply(r, OpAggIssue(runs[r]))
RunAggReturn(r) == Apply(r, OpAggReturn(runs[r]))
RunSendAggFailed(r) == Apply(r, OpSendAggFailed(runs[r]))
RunSendCombined(r) == Apply(r, OpSendCombined(runs[r]))
RunSendGot3(r) == Apply(r, OpSendGot3(runs[r]))
RunSendMessage(r) == Apply(r, OpSendMessage(runs[r]))
RunCloseEventChan(r) == Apply(r, OpCloseEventChan(runs[r]))

\* the server has seeded the collection; the requests have arrived
MultiInit ==
    /\ reqMethod = "POST"
    /\ output = <<>>
    /\ client = NoClient
    /\ streamChan = <<>>
    /\ userMessage = ""
    /\ flusherOK = TRUE
    /\ collection = SampleFlights
    /\ ctxDone = FALSE
    /\ cancelledAt = "none"
    /\ httpStatus = 0
    /\ hPc = "init"
    /\ orchPc = "idle"
    /\ stagePc = [g \in Stages |-> "none"]
    /\ path = ""
    /\ filter = [origin |-> "", destination |-> "", maxPrice |-> 0]
    /\ flights = <<>>
    /\ searchErr = FALSE
    /\ language = ""
    /\ prompt = [i \in LLMs |-> ""]
    /\ dbCalls = 0
    /\ llmCalls = [i \in LLMs |-> 0]
    /\ issuedDone = [i \in LLMs |-> FALSE]
    /\ llmResult = [i \in LLMs |-> NoResult]
    /\ respChan = [g \in Stages |-> <<>>]
    /\ wg = 0
    /\ llmResp = [g \in Stages |-> ""]
    /\ eventChanClosed = FALSE
    /\ delivered = <<>>
    /\ seedRuns = 1
    /\ seedErr = FALSE
    /\ runs = [r \in Requests |-> InitRun]

MultiNext ==
    \/ \E r \in Requests : RunHandlerStart(r)
    \/ \E r \in Requests : RunServeHTTPEnter(r)
    \/ \E r \in Requests : RunServeHTTPClosed(r)
    \/ \E r \in Requests : RunClassifyFlight(r)
    \/ \E r \in Requests : RunClassifyGeneral(r)
    \/ \E r \in Requests : RunSearchReturn(r)
    \/ \E r \in Requests : RunSendNoFlights(r)
    \/ \E r \in Requests, g \in Stages : RunStageSendInvoking(r, g)
    \/ \E r \in Requests, g \in Stages : RunStageIssue(r, g)
    \/ \E r \in Requests, g \in Stages : RunStageReturn(r, g)
    \/ \E r \in Requests, g \in Stages : RunStageSendGot(r, g)
    \/ \E r \in Requests : RunJoin(r)
    \/ \E r \in Requests : RunSendInvoking3(r)
    \/ \E r \in Requests : RunAggIssue(r)
    \/ \E r \in Requests : RunAggReturn(r)
    \/ \E r \in Requests : RunSendAggFailed(r)
    \/ \E r \in Requests : RunSendCombined(r)
    \/ \E r \in Requests : RunSendGot3(r)
    \/ \E r \in Requests : RunSendMessage(r)
    \/ \E r \in Requests : RunCloseEventChan(r)

MultiSpec == MultiInit /\ [][MultiNext]_vars

\* The Go scheduler runs a goroutine that can take a step, and the calls
\* to the store and to the completion service return: the server does not
\* stop while a step of one of its requests is possible.
MultiFairSpec == MultiSpec /\ WF_vars(MultiNext)

(***************************************************************************)
(* Properties.                                                             *)
(***************************************************************************)
MessageCount(evs) == Cardinality({ i \in 1..Len(evs) : evs[i].Type = "Message" })

StatusCount(evs) == Cardinality({ i \in 1..Len(evs) : evs[i].Type = "Status" })

\* ProcessMessage has returned
Returned == orchPc \in { "ret", "closed" }

\* the request context was not cancelled before the event stream was closed
NotCancelled == cancelledAt \in { "none", "closed" }

\* the two stage goroutines were started
StagesStarted == \A g \in Stages : stagePc[g] # "none"

\* the store returned at least one record, or the query is not a flight query
RecordsOrGeneral == path = "general" \/ (path = "flight" /\ flights # <<>>)

\* C1: in a run that is not cancelled, that got records from the store or is
\* not a flight query, a Message event is never followed by another event,
\* and once ProcessMessage has returned exactly one Message event was
\* published and it is the last event of the stream.
C1_OneTerminalMessage ==
    (NotCancelled /\ RecordsOrGeneral) =>
        /\ \A i \in 1..Len(delivered) :
              delivered[i].Type = "Message" => i = Len(delivered)
        /\ Returned =>
              /\ MessageCount(delivered) = 1
              /\ delivered[Len(delivered)].Type = "Message"

C1_Witness ==
    /\ eventChanClosed /\ cancelledAt = "none"
    /\ path = "flight" /\ flights # <<>>
    /\ ~llmResult[3].ok
    /\ Len(delivered) = 7 /\ delivered[7].Type = "Message"

NoFlightsEvent == Event("Message", "No flights found for your query.")

\* SearchFlights has returned an error or an empty list
SearchCameBackEmpty ==
    /\ path = "flight"
    /\ orchPc \in { "send_noflights", "ret", "closed" }
    /\ searchErr \/ flights = <<>>

\* C2: when SearchFlights returns an error or an empty list, no stage
\* goroutine is started, no completion call is issued to LLM 1, 2 or 3, no
\* Status event is published, and when the run has returned it has published
\* exactly one event, the Message "No flights found for your query.".
C2_NoFlightsShortCircuit ==
    SearchCameBackEmpty =>
        /\ \A i \in LLMs : llmCalls[i] = 0
        /\ \A g \in Stages : stagePc[g] = "none"
        /\ StatusCount(delivered) = 0
        /\ Returned => delivered = << NoFlightsEvent >>

C2_Witness ==
    /\ SearchCameBackEmpty /\ ~searchErr
    /\ filter.origin = "Madrid" /\ filter.destination = "Tokyo"
    /\ orchPc = "closed" /\ delivered = << NoFlightsEvent >>

DomainKeywords == { "vuelo", "vuelos", "flight", "flights" }

\* the request bodies whose lowercased form contains no domain keyword
NoKeywordQueries ==
    { q \in Queries : \A kw \in DomainKeywords : ~Contains(LowerMsg[q], kw) }

\* C3: for a query whose lowercased text contains none of the domain
\* keywords, SearchFlights is never called and the run goes from
\* classification directly to the two stage goroutines.
C3_NoKeywordNoStore ==
    userMessage \in NoKeywordQueries =>
        /\ dbCalls = 0
        /\ orchPc \notin { "insearch", "send_noflights" }
        /\ orchPc \notin { "idle", "start" } => (path = "general" /\ StagesStarted)

C3_Witness ==
    /\ userMessage = "Is Madrid nice in summer?"
    /\ userMessage \in NoKeywordQueries
    /\ orchPc = "closed" /\ dbCalls = 0 /\ MessageCount(delivered) = 1

IsStageEvent(e) ==
    /\ e.Type = "Status"
    /\ \E g \in Stages : e.Data = InvokingText(path, g) \/ e.Data = GotText(g)

IsAggregationEvent(e) ==
    \/ e.Type = "Message"
    \/ e.Data \in { "Invoking LLM 3 (aggregation)", "LLM3 aggregation failed",
                    "Got response from LLM 3" }

\* the four stage Status events have all been published
AllStageEventsDelivered ==
    \A g \in Stages :
        /\ \E i \in 1..Len(delivered) : delivered[i] = Event("Status", InvokingText(path, g))
        /\ \E i \in 1..Len(delivered) : delivered[i] = Event("Status", GotText(g))

\* the aggregation stage has begun: its first send is pending or done
AggregationBegun ==
    \/ orchPc \in { "send_invoking3", "call3", "incall3", "send_aggfailed",
                    "send_combined", "send_got3", "send_message" }
    \/ llmCalls[3] > 0
    \/ \E i \in 1..Len(delivered) : delivered[i].Data = "Invoking LLM 3 (aggregation)"

\* C4: the aggregation stage (its Status event and the LLM3 call) begins
\* only after both stage calls have returned and all four stage Status
\* events have been published, and no stage event follows an
\* aggregation-stage event.
C4_JoinBarrier ==
    /\ AggregationBegun =>
          /\ \A g \in Stages : stagePc[g] = "done" /\ llmCalls[g] = 1
          /\ AllStageEventsDelivered
    /\ \A i, j \in 1..Len(delivered) :
          (i < j /\ IsAggregationEvent(delivered[i])) => ~IsStageEvent(delivered[j])

C4_Witness ==
    /\ llmCalls[3] = 1
    /\ Len(delivered) >= 5
    /\ delivered[5] = Event("Status", "Invoking LLM 3 (aggregation)")
    /\ delivered[1] = Event("Status", "Invoking LLM 2")
    /\ delivered[4] = Event("Status", "Got response from LLM 1")

\* the answer text stage g must produce from the result of its call
ExpectedAnswer(g) ==
    IF llmResult[g].ok THEN llmResult[g].text
    ELSE "[LLM" \o IntToStr(g) \o " Error] " \o llmResult[g].text

\* the aggregation call failed and the run has published its last event
FallbackDone == Returned /\ llmCalls[3] = 1 /\ ~llmResult[3].ok

\* C5 as stated: the fallback Message is "Style A: " + answer of stage 1 +
\* blank line + "Style B: " + answer of stage 2.
C5_StyleLabels ==
    FallbackDone =>
        delivered[Len(delivered)] =
            Event("Message", "Style A: " \o ExpectedAnswer(1) \o "\n\n"
                             \o "Style B: " \o ExpectedAnswer(2))

\* C5 amended: when the aggregation call fails the run publishes the Status
\* "LLM3 aggregation failed" and then the terminal Message, whose text is
\* label 1 + answer of stage 1 + blank line + label 2 + answer of stage 2,
\* the labels being "LLM1 (short, formal, concise):\n" and
\* "LLM2 (friendly, verbose, opinionated):\n" on the general path and
\* "LLM1 (flights list):\n" and "LLM2 (duration and cost):\n" on the flight
\* path.
C5_FallbackConcatenation ==
    FallbackDone =>
        /\ Len(delivered) = 7
        /\ delivered[6] = Event("Status", "LLM3 aggregation failed")
        /\ delivered[7] =
              Event("Message",
                    (IF path = "flight" THEN "LLM1 (flights list):\n"
                     ELSE "LLM1 (short, formal, concise):\n")
                    \o ExpectedAnswer(1) \o "\n\n"
                    \o (IF path = "flight" THEN "LLM2 (duration and cost):\n"
                        ELSE "LLM2 (friendly, verbose, opinionated):\n")
                    \o ExpectedAnswer(2))

C5_Witness ==
    /\ FallbackDone /\ path = "general"
    /\ llmResult[1].ok /\ llmResult[2].ok /\ llmResult[1].text # llmResult[2].text
    /\ delivered[7].Type = "Message"

\* C6: a failed stage call yields the answer "[LLMg Error] " + error message;
\* the aggregation call is issued, once, with both answers in its prompt;
\* a run that started its stages returns only after one Message; and the
\* fallback Message contains the text of every stage that succeeded.
C6_StageFailureDoesNotAbort ==
    /\ \A g \in Stages :
          (stagePc[g] = "send_got" /\ ~llmResult[g].ok) =>
              respChan[g] = << "[LLM" \o IntToStr(g) \o " Error] " \o llmResult[g].text >>
    /\ orchPc = "send_invoking3" =>
          \A g \in Stages : llmResp[g] = ExpectedAnswer(g)
    /\ orchPc = "incall3" =>
          \A g \in Stages : Contains(prompt[3], ExpectedAnswer(g))
    /\ (Returned /\ StagesStarted) =>
          /\ llmCalls[3] = 1
          /\ MessageCount(delivered) = 1
    /\ (orchPc = "ret" /\ StagesStarted /\ ~llmResult[3].ok) =>
          \A g \in Stages :
              llmResult[g].ok =>
                  Contains(delivered[Len(delivered)].Data, llmResult[g].text)

C6_Witness ==
    /\ orchPc = "closed" /\ StagesStarted
    /\ ~llmResult[1].ok /\ llmResult[2].ok /\ ~llmResult[3].ok
    /\ cancelledAt = "none"
    /\ delivered[Len(delivered)].Type = "Message"

\* the context was cancelled after both stage goroutines were dispatched and
\* before the aggregation call was started
CancelledBetweenDispatchAndAggregation ==
    cancelledAt \in { "wait", "send_invoking3", "call3" }

\* C7: if the request context is cancelled after both stage goroutines have
\* been dispatched and before the aggregation call starts, no LLM3 call is
\* issued and no Message event is published.
C7_CancelStopsAggregation ==
    CancelledBetweenDispatchAndAggregation =>
        /\ llmCalls[3] = 0
        /\ MessageCount(delivered) = 0

\* ServeHTTP has returned because the request context was cancelled
ConsumerGone == hPc = "returned" /\ httpStatus = 0 /\ orchPc # "idle"

\* both stage goroutines and ProcessMessage have returned, eventChan is closed
RunFinished ==
    /\ orchPc = "closed" /\ eventChanClosed
    /\ \A g \in Stages : stagePc[g] \in { "none", "done" }

\* C8: once the consumer is gone, the stage goroutines and ProcessMessage
\* eventually return and eventChan is closed.
C8_RunEndsAfterConsumerGone == ConsumerGone ~> RunFinished

\* C9: once the request context is cancelled, no event is delivered from
\* eventChan.
C9_NothingPublishedAfterCancel == [][ctxDone => delivered' = delivered]_vars

\* C10: the filter a flight query was searched with is the one every
\* traversal order of the synonyms map yields for that text.
C10_ExtractionDeterministic ==
    (path = "flight" /\ dbCalls = 1) =>
        \A f \in Filters[userMessage] : f = filter

LondonQuery == "hay vuelos a londres?"

\* the collection holds a Madrid->London and a Paris->London document
HoldsLondonRecords ==
    /\ \E i \in 1..Len(collection) :
          collection[i].Origin = "Madrid" /\ collection[i].Destination = "London"
    /\ \E i \in 1..Len(collection) :
          collection[i].Origin = "Paris" /\ collection[i].Destination = "London"

\* C11: for the body "hay vuelos a londres?" the run takes the flight path,
\* the filter is origin "", destination "London" and no price ceiling,
\* SearchFlights is called exactly once with it, and when the collection
\* holds Madrid->London and Paris->London documents, the search succeeds
\* and both stage calls succeed, the returned run has published exactly one
\* Message event, as the last of its seven events.
C11_LondonQuery ==
    userMessage = LondonQuery =>
        /\ dbCalls <= 1
        /\ orchPc \notin { "idle", "start" } =>
              /\ path = "flight"
              /\ filter = [origin |-> "", destination |-> "London", maxPrice |-> 0]
              /\ dbCalls = 1
        /\ (/\ Returned /\ HoldsLondonRecords /\ ~searchErr
            /\ llmResult[1].ok /\ llmResult[2].ok) =>
              /\ \E i \in 1..Len(flights) :
                    flights[i].Origin = "Madrid" /\ flights[i].Destination = "London"
              /\ \E i \in 1..Len(flights) :
                    flights[i].Origin = "Paris" /\ flights[i].Destination = "London"
              /\ MessageCount(delivered) = 1
              /\ Len(delivered) = 7
              /\ delivered[7].Type = "Message"

C11_Witness ==
    /\ userMessage = LondonQuery /\ HoldsLondonRecords
    /\ orchPc = "closed" /\ dbCalls = 1 /\ ~searchErr
    /\ filter.destination = "London" /\ Len(flights) = 7
    /\ llmResult[1].ok /\ llmResult[2].ok /\ llmResult[3].ok
    /\ delivered[7] = Event("Message", llmResult[3].text)

\* a case-insensitive partial match, found by comparing every substring of
\* the field that is as long as the text
FoldContains(field, d) ==
    \E i \in 1..(Len(field) - Len(d) + 1) :
        ToLower(SubSeq(field, i, i + Len(d) - 1)) = ToLower(d)

\* a SearchFlights call has returned without error
SearchSucceeded == dbCalls = 1 /\ orchPc # "insearch" /\ ~searchErr

\* C12: SearchFlights with origin "" and destination d returns exactly the
\* documents of the collection whose origin or whose destination matches d
\* (case-insensitive, partial), and among them only those with price at most
\* maxPrice when maxPrice > 0.
C12_DestinationOnlySearch ==
    (SearchSucceeded /\ filter.origin = "" /\ filter.destination # "") =>
        flights = SelectSeq(collection, LAMBDA f :
                    /\ \/ FoldContains(f.Origin, filter.destination)
                       \/ FoldContains(f.Destination, filter.destination)
                    /\ filter.maxPrice > 0 => f.Price <= filter.maxPrice)

C12_Witness ==
    /\ SearchSucceeded /\ orchPc = "idle"
    /\ filter = [origin |-> "", destination |-> "lon", maxPrice |-> 195]
    /\ Len(collection) = 21 /\ Len(flights) < Len(collection)
    /\ \E i \in 1..Len(flights) : flights[i].Origin = "London"
    /\ \E i \in 1..Len(flights) : flights[i].Destination = "London"
    /\ \E i \in 1..Len(flights) : flights[i].Destination = "Barcelona"
    /\ \E i \in 1..Len(flights) : flights[i].Price = 195

\* the flight numbers FL101 .. FL120
SampleNumbers == { "FL" \o IntToStr(n) : n \in 101..120 }

\* how many documents of the collection have that flight number
NumberCount(coll, num) ==
    Cardinality({ i \in 1..Len(coll) : coll[i].FlightNumber = num })

\* this step is a SeedFlights call that returns nil
SeedCompletes == seedRuns' = seedRuns + 1 /\ ~seedErr'

\* C15: a SeedFlights call that returns nil on an empty collection leaves
\* exactly 20 documents, one for each of FL101 .. FL120; a SeedFlights call
\* that returns nil after an earlier one did leaves the collection
\* unchanged; and no SeedFlights call adds a document with a flight number
\* the collection already has.
C15_SeedIdempotent ==
    [][ /\ (SeedCompletes /\ collection = <<>>) =>
             /\ Len(collection') = 20
             /\ \A num \in SampleNumbers : NumberCount(collection', num) = 1
        /\ (SeedCompletes /\ seedRuns >= 1 /\ ~seedErr) =>
             collection' = collection
        /\ \A num \in SampleNumbers :
             NumberCount(collection, num) >= 1 =>
                 NumberCount(collection', num) = NumberCount(collection, num)
      ]_vars

C15_Witness ==
    /\ seedRuns = 2 /\ ~seedErr /\ orchPc = "idle"
    /\ Len(collection) = 20
    /\ \A num \in SampleNumbers : NumberCount(collection, num) = 1

AirportCodeQuery == "flights from MAD to JFK"

\* C16: a flight query that names its cities by airport code is searched
\* with the canonical cities: for "flights from MAD to JFK" the filter
\* passed to SearchFlights has origin "Madrid" and destination "New York".
C16_AirportCodesResolved ==
    (userMessage = AirportCodeQuery /\ dbCalls = 1) =>
        /\ filter.origin = "Madrid"
        /\ filter.destination = "New York"

\* the senders on eventChan: the goroutine running ProcessMessage (0) and
\* the two stage goroutines
Senders == { 0 } \cup Stages

\* the events stage goroutine g has sent when it is at its position
StageSent(g) ==
    IF stagePc[g] \in { "none", "send_invoking" } THEN <<>>
    ELSE IF stagePc[g] = "done"
         THEN << Event("Status", InvokingText(path, g)), Event("Status", GotText(g)) >>
         ELSE << Event("Status", InvokingText(path, g)) >>

\* the events ProcessMessage itself has sent when it is at its position
OrchSent ==
    LET inv3   == Event("Status", "Invoking LLM 3 (aggregation)")
        failed == Event("Status", "LLM3 aggregation failed")
        got3   == Event("Status", "Got response from LLM 3")
        fallback == Event("Message",
                          Combined(path, ExpectedAnswer(1), ExpectedAnswer(2)))
    IN  CASE orchPc \in { "call3", "incall3", "send_aggfailed", "send_got3" } ->
               << inv3 >>
          [] orchPc = "send_combined" -> << inv3, failed >>
          [] orchPc = "send_message" -> << inv3, got3 >>
          [] orchPc \in { "ret", "closed" } ->
               IF SearchCameBackEmpty THEN << NoFlightsEvent >>
               ELSE IF llmResult[3].ok
                    THEN << inv3, got3, Event("Message", llmResult[3].text) >>
                    ELSE << inv3, failed, fallback >>
          [] OTHER -> <<>>

SentBy(s) == IF s = 0 THEN OrchSent ELSE StageSent(s)

\* the event is one that stage goroutine g sends
IsEventOfStage(g, e) ==
    e \in { Event("Status", InvokingText(path, g)), Event("Status", GotText(g)) }

IsEventOf(s, e) ==
    IF s = 0 THEN \A g \in Stages : ~IsEventOfStage(g, e)
    ELSE IsEventOfStage(s, e)

\* C17: the events ServeHTTP has received from one sender are exactly the
\* events that sender has sent, in the order it sent them, each once and
\* unchanged; every received event is of exactly one sender, so the
\* received sequence is an interleaving of the three sent sequences.
C17_ChannelSerializes ==
    /\ \A s \in Senders :
          SelectSeq(delivered, LAMBDA e : IsEventOf(s, e)) = SentBy(s)
    /\ \A i \in 1..Len(delivered) :
          Cardinality({ s \in Senders : IsEventOf(s, delivered[i]) }) = 1

C17_Witness ==
    /\ orchPc = "closed" /\ NotCancelled /\ Len(delivered) = 7
    /\ IsEventOfStage(2, delivered[1]) /\ IsEventOfStage(1, delivered[2])
    /\ IsEventOfStage(1, delivered[3]) /\ IsEventOfStage(2, delivered[4])
    /\ \A i \in 5..7 : IsEventOf(0, delivered[i])

\* the words that introduce a price in pricePatterns
PriceWords == { "under ", "less than ", "below ", "menos de ", "bajo ", "inferior a " }

DigitChars == { "0", "1", "2", "3", "4", "5", "6", "7", "8", "9" }

\* the request bodies in which no price word is followed by a number or by
\* "$" and a number
NoPriceQueries ==
    { q \in Queries :
        \A w \in PriceWords, d \in DigitChars :
            /\ ~Contains(LowerMsg[q], w \o d)
            /\ ~Contains(LowerMsg[q], w \o "$" \o d) }

\* the origin/destination part of the search, without any price predicate
RouteMatches(f, origin, destination) ==
    /\ origin # "" => FoldContains(f.Origin, origin)
    /\ destination # "" =>
          \/ FoldContains(f.Destination, destination)
          \/ origin = "" /\ FoldContains(f.Origin, destination)

\* the documents of a collection on the route of a filter, at any price
RouteFound ==
    [c \in Stores, f \in AllFilters |->
        SelectSeq(c, LAMBDA d : RouteMatches(d, f.origin, f.destination))]

\* C18: when no price pattern matches the request body, SearchFlights is
\* called with maxPrice 0 and returns every document that satisfies the
\* origin/destination filter, whatever its price.
C18_NoPriceNoCeiling ==
    (userMessage \in NoPriceQueries /\ path = "flight") =>
        /\ dbCalls = 1 => filter.maxPrice = 0
        /\ SearchSucceeded => flights = RouteFound[collection, filter]

C18_Witness ==
    /\ userMessage = "Que vuelos hay en general?" /\ SearchSucceeded
    /\ orchPc = "wait" /\ filter.maxPrice = 0
    /\ flights = collection
    /\ \E i \in 1..Len(flights) : flights[i].Price = 950
    /\ \E i \in 1..Len(flights) : flights[i].Price = 70

\* the call of stage goroutine g has been issued
StageCallIssued(g) == stagePc[g] \in { "incall", "send_got", "done" }

\* the aggregation call has been issued
AggCallIssued ==
    orchPc \in { "incall3", "send_aggfailed", "send_combined", "send_got3",
                 "send_message" }
      \/ (Returned /\ StagesStarted)

\* C19: no completion call is issued twice, whatever the calls return: the
\* call of a stage goroutine is issued once when the goroutine reaches it
\* and never again, the LLM3 call is issued once when the run reaches the
\* aggregation and never again, and a run that started the stage goroutines
\* and has returned has issued each of the three calls exactly once.
C19_NoRetries ==
    /\ \A i \in LLMs : llmCalls[i] <= 1
    /\ \A g \in Stages : llmCalls[g] = 1 <=> StageCallIssued(g)
    /\ llmCalls[3] = 1 <=> AggCallIssued
    /\ (Returned /\ StagesStarted) => \A i \in LLMs : llmCalls[i] = 1

C19_Witness ==
    /\ orchPc = "closed" /\ NotCancelled /\ StagesStarted
    /\ \A i \in LLMs : ~llmResult[i].ok /\ llmCalls[i] = 1
    /\ path = "general"

\* the state of the run: 0 no run, 1 Received and Classifying,
\* 2 ResolvingRecords, 3 Responding, 4 Aggregating, 5 ProcessMessage
\* returned, 6 Closed
Phase(pc) ==
    CASE pc = "idle" -> 0
      [] pc = "start" -> 1
      [] pc \in { "insearch", "send_noflights" } -> 2
      [] pc = "wait" -> 3
      [] pc \in { "send_invoking3", "call3", "incall3", "send_aggfailed",
                  "send_combined", "send_got3", "send_message" } -> 4
      [] pc = "ret" -> 5
      [] pc = "closed" -> 6

\* the phases that may follow a phase
PhaseAfter(n) ==
    CASE n = 0 -> { 0, 1 }
      [] n = 1 -> { 1, 2, 3 }
      [] n = 2 -> { 2, 3, 5 }
      [] n = 3 -> { 3, 4 }
      [] n = 4 -> { 4, 5 }
      [] n = 5 -> { 5, 6 }
      [] n = 6 -> { 6 }

\* what holds in every state of a run that keeps the state order
PhaseInvariant ==
    /\ dbCalls <= 1
    /\ (\E i \in LLMs : llmCalls[i] > 0) => Phase(orchPc) >= 3
    /\ llmCalls[3] > 0 =>
          /\ Phase(orchPc) >= 4
          /\ \A g \in Stages : llmCalls[g] = 1 /\ stagePc[g] = "done"
    /\ (path = "flight" /\ orchPc # "insearch" /\ (searchErr \/ flights = <<>>))
          => Phase(orchPc) \in { 2, 5, 6 }
    /\ Phase(orchPc) = 2 => path = "flight"
    /\ eventChanClosed <=> Phase(orchPc) = 6

\* what holds of every step of a run that keeps the state order
PhaseStep ==
    /\ Phase(orchPc') \in PhaseAfter(Phase(orchPc))
    /\ dbCalls' # dbCalls =>
          /\ Phase(orchPc) = 1 /\ Phase(orchPc') = 2
          /\ \A i \in LLMs : llmCalls[i] = 0
    /\ llmCalls'[3] # llmCalls[3] =>
          \A g \in Stages : llmCalls[g] = 1 /\ llmResult[g] # NoResult
    /\ (Phase(orchPc) = 2 /\ Phase(orchPc') = 5) =>
          /\ searchErr \/ flights = <<>>
          /\ \A i \in LLMs : llmCalls[i] = 0
    /\ eventChanClosed => delivered' = delivered

\* C20: the run goes through Received and Classifying, ResolvingRecords
\* (flight queries only), Responding, Aggregating and Closed in that order
\* and never back: SearchFlights is called at most once and before any
\* completion call, both stage calls have been issued and have returned
\* when the LLM3 call is issued, no event is delivered once eventChan is
\* closed, and a search that returns an error or no flight leads from
\* ResolvingRecords to the return and the close with no completion call.
C20_StateOrder == []PhaseInvariant /\ [][PhaseStep]_vars

C20_Witness ==
    /\ Phase(orchPc) = 6 /\ path = "flight" /\ dbCalls = 1
    /\ \A i \in LLMs : llmCalls[i] = 1
    /\ llmResult[3].ok /\ Len(delivered) = 7
    /\ hPc = "returned" /\ NotCancelled

\* the events request r has received, without their senders
StreamOf(r) == [i \in 1..Len(runs[r].delivered) |-> runs[r].delivered[i].ev]

\* request r is over: one Message was published, as the last event,
\* ProcessMessage has returned, eventChan is closed, ServeHTTP has returned
RequestFinished(r) ==
    /\ runs[r].orchPc = "closed" /\ runs[r].closed
    /\ runs[r].hPc = "returned"
    /\ MessageCount(StreamOf(r)) = 1
    /\ StreamOf(r)[Len(StreamOf(r))].Type = "Message"

\* C13: every one of the requests served at the same time, whose client
\* keeps receiving and whose store and completion calls return, eventually
\* has published one terminal Message, has ProcessMessage returned,
\* eventChan closed and ServeHTTP returned.
C13_EveryRequestAnswered == <>(\A r \in Requests : RequestFinished(r))

C13_Witness ==
    /\ \A r \in Requests : RequestFinished(r)
    /\ Len(runs[1].delivered) = 7 /\ Len(runs[2].delivered) = 7

\* every step request r can take from state s when it is served alone, with
\* the event it sends appended to what it has received
LoneSteps(s, r, coll) ==
    LET outs ==
            OpHandlerStart(s) \cup OpServeHTTPEnter(s) \cup OpServeHTTPClosed(s)
              \cup OpClassifyFlight(s, r) \cup OpClassifyGeneral(s, r)
              \cup OpSearchReturn(s, coll) \cup OpSendNoFlights(s)
              \cup UNION { OpStageSendInvoking(s, g) \cup OpStageIssue(s, g)
                             \cup OpStageReturn(s, g) \cup OpStageSendGot(s, g) :
                           g \in Stages }
              \cup OpJoin(s) \cup OpSendInvoking3(s) \cup OpAggIssue(s)
              \cup OpAggReturn(s) \cup OpSendAggFailed(s) \cup OpSendCombined(s)
              \cup OpSendGot3(s) \cup OpSendMessage(s) \cup OpCloseEventChan(s)
    IN  { IF o.send = <<>> THEN o.next
          ELSE [o.next EXCEPT !.delivered = Append(@, Received(r, o.send[1]))] :
          o \in outs }

RECURSIVE LoneClosure(_, _, _, _)
LoneClosure(seen, frontier, r, coll) ==
    IF frontier = {} THEN seen
    ELSE LET new == UNION { LoneSteps(s, r, coll) : s \in frontier } \ seen
         IN  LoneClosure(seen \cup new, new, r, coll)

\* the states request r goes through when it is the only request
LoneStates ==
    [r \in Requests |-> LoneClosure({ InitRun }, { InitRun }, r, SampleFlights)]

\* C14: with requests served at the same time, every event a request has
\* received was sent by a goroutine of that request, and the state of each
\* request, with the sequence of events it has received, is one the request
\* goes through when it is served alone.
C14_RunsIndependent ==
    \A r \in Requests :
        /\ \A i \in 1..Len(runs[r].delivered) : runs[r].delivered[i].from = r
        /\ runs[r] \in LoneStates[r]

C14_Witness ==
    /\ \A r \in Requests :
          /\ runs[r].orchPc = "wait"
          /\ \A g \in Stages : runs[r].stagePc[g] = "incall"
          /\ Len(runs[r].delivered) = 2
    /\ runs[1].path = "flight" /\ runs[2].path = "general"

\* ServeHTTP is in its loop and can take the receive case of its select
ConsumerReceiving == hPc = "loop" /\ ~eventChanClosed

\* C21: the two stage goroutines run concurrently: wherever the other
\* goroutine is, a stage goroutine that is about to call can call, one whose
\* call is in flight can have it return, and one that is about to send a
\* Status event can send it when ServeHTTP is receiving; so both calls can
\* be in flight together, and either can return, and have its events
\* received, first.
C21_StagesConcurrent ==
    \A g \in Stages :
        /\ stagePc[g] = "call" => ENABLED StageIssue(g)
        /\ stagePc[g] = "incall" => ENABLED StageReturn(g)
        /\ (stagePc[g] = "send_invoking" /\ ConsumerReceiving) =>
              ENABLED StageSendInvoking(g)
        /\ (stagePc[g] = "send_got" /\ ConsumerReceiving) =>
              ENABLED StageSendGot(g)

\* both calls are in flight, the LLM2 goroutine having sent its event first
C21_Witness ==
    /\ stagePc[1] = "incall" /\ stagePc[2] = "incall"
    /\ llmCalls[1] = 1 /\ llmCalls[2] = 1
    /\ delivered = << Event("Status", InvokingText(path, 2)),
                      Event("Status", InvokingText(path, 1)) >>

\* number of events of the stream equal to ev
EventCount(ev) == Cardinality({ i \in 1..Len(delivered) : delivered[i] = ev })

InvokingCount(g) == EventCount(Event("Status", InvokingText(path, g)))

GotCount(g) == EventCount(Event("Status", GotText(g)))

\* the completion call of stage g has returned
StageCallReturned(g) == stagePc[g] \in { "send_got", "done" }

\* C22: each stage publishes its start Status exactly once, before its
\* call is issued, and its completion Status exactly once, after the call
\* has returned and whether it succeeded or failed: the start Status is on
\* the stream exactly when the stage has passed its first send, the
\* completion Status exactly when the stage goroutine is done, and a run
\* that started the stages and returned has one of each per stage.
C22_StageStatusEvents ==
    \A g \in Stages :
        /\ InvokingCount(g) = (IF stagePc[g] \in { "none", "send_invoking" } THEN 0 ELSE 1)
        /\ GotCount(g) = (IF stagePc[g] = "done" THEN 1 ELSE 0)
        /\ llmCalls[g] <= InvokingCount(g)
        /\ StageCallReturned(g) => llmCalls[g] = 1 /\ llmResult[g] # NoResult
        /\ (Returned /\ StagesStarted) => InvokingCount(g) = 1 /\ GotCount(g) = 1

\* a run returned after the call of LLM 1 failed and that of LLM 2 succeeded
C22_Witness ==
    /\ Returned /\ StagesStarted
    /\ ~llmResult[1].ok /\ llmResult[2].ok
    /\ \A g \in Stages : InvokingCount(g) = 1 /\ GotCount(g) = 1

\* the Message event that ends the stream of a run that reached the
\* aggregation and returned
TerminalMessage == delivered[Len(delivered)]

\* C23: the fallback is taken for every failed aggregation call and only
\* then, and an aggregation call that yields empty text is not published as
\* the terminal Message: in a run that reached the aggregation and returned
\* the terminal Message is the fallback text exactly when the call failed,
\* and no Message event of any run has empty text.
C23_FallbackOnlyOnErrorNeverEmpty ==
    /\ orchPc \in { "send_aggfailed", "send_combined" } => ~llmResult[3].ok
    /\ orchPc \in { "send_got3", "send_message" } => llmResult[3].ok
    /\ (Returned /\ StagesStarted) =>
          /\ TerminalMessage.Type = "Message"
          /\ (TerminalMessage.Data = Combined(path, llmResp[1], llmResp[2]))
                <=> ~llmResult[3].ok
    /\ \A i \in 1..Len(delivered) :
          delivered[i].Type = "Message" => delivered[i].Data # ""

\* wg.Wait() has returned and the two response channels were read
Joined == StagesStarted /\ orchPc # "wait"

\* C24: each stage goroutine sends exactly one answer on its own response
\* channel and never blocks on it, and the orchestrator reads each once
\* after the join: a channel never holds more than one value and is empty
\* until its goroutine's call returns; from then until the join it holds
\* exactly the answer of that goroutine; when wg.Wait can return both
\* channels hold a value; and after the join llm1Resp is the answer written
\* by the LLM1 goroutine, llm2Resp the one written by the LLM2 goroutine,
\* and the channels are drained.
C24_OneAnswerPerStage ==
    \A g \in Stages :
        /\ Len(respChan[g]) <= 1
        /\ ~StageCallReturned(g) => respChan[g] = <<>> /\ llmResp[g] = ""
        /\ (StageCallReturned(g) /\ ~Joined) =>
              respChan[g] = << ExpectedAnswer(g) >> /\ llmResp[g] = ""
        /\ (orchPc = "wait" /\ wg = 0) => Len(respChan[g]) = 1
        /\ Joined => llmResp[g] = ExpectedAnswer(g) /\ respChan[g] = <<>>

\* after the join of a run whose LLM1 call failed and whose LLM2 call
\* succeeded, each answer is in its own variable
C24_Witness ==
    /\ Joined
    /\ ~llmResult[1].ok /\ llmResult[2].ok /\ llmResult[2].text # ""
    /\ llmResp[1] = "[LLM1 Error] " \o llmResult[1].text
    /\ llmResp[2] = llmResult[2].text

\* the loops have run on the request body
Extracted == path = "flight" /\ orchPc = "idle"

\* no destination pattern ("to X", " a X", "hacia X") matches the text
NoDestinationPattern(lower) ==
    \A syn \in SynKeys : ~DestinationPattern(lower, syn)

\* the canonical names of the synonyms that occur in the text and differ
\* from the origin
OtherCities(lower, origin) ==
    { Canon(syn) : syn \in PresentKeys(lower) } \ { origin }

\* C25: when no destination pattern matches, destination is the canonical
\* name of a synonym that occurs in the text and differs from the origin
\* already matched (the first one the loop meets), and it stays "" when the
\* text has no such synonym, as in a query that names its origin only.
C25_SingleCityFallback ==
    LET lower == ToLower(userMessage)
    IN  (Extracted /\ NoDestinationPattern(lower)) =>
           IF OtherCities(lower, filter.origin) = {}
           THEN filter.destination = ""
           ELSE filter.destination \in OtherCities(lower, filter.origin)

\* the fallback skipped the origin and took the second of two other cities
C25_Witness ==
    /\ Extracted
    /\ userMessage = "Flights from Madrid berlin valencia"
    /\ filter = [origin |-> "Madrid", destination |-> "Valencia", maxPrice |-> 0]

\* the request bodies whose price phrase is "under 0"
ZeroCeilingTexts ==
    { "Flights" \o o \o d \o " under 0" :
        o \in OriginPhrases, d \in DestinationPhrases }

\* the same body without its price phrase
WithoutCeiling(t) == SubSeq(t, 1, Len(t) - Len(" under 0"))

\* C26: a price ceiling of zero is told apart from no ceiling: the filter
\* extracted from a body that ends in "under 0" is not a filter of the same
\* body without the price phrase, and a SearchFlights call with it that
\* succeeds returns no flight with a price above 0.
C26_ZeroCeilingDistinct ==
    (Extracted /\ userMessage \in ZeroCeilingTexts) =>
        /\ filter \notin ExtractResults[WithoutCeiling(userMessage)]
        /\ SearchSucceeded =>
              \A i \in 1..Len(flights) : flights[i].Price <= 0

\* the text names no city of the synonyms map and has no digit
NoCityNoPrice(lower) ==
    /\ PresentKeys(lower) = {}
    /\ \A i \in 1..Len(lower) : ~IsDigit(CharAt(lower, i))

\* C27: a domain query that names no city and no price calls SearchFlights
\* with origin "", destination "" and maxPrice 0 (no ceiling), and the call,
\* when it succeeds, returns every flight of the collection.
C27_NoFilterReturnsAll ==
    (Extracted /\ NoCityNoPrice(ToLower(userMessage))) =>
        /\ filter = [origin |-> "", destination |-> "", maxPrice |-> 0]
        /\ SearchSucceeded => flights = collection

\* the general question of the README found all 21 flights of the larger store
C27_Witness ==
    /\ Extracted /\ SearchSucceeded
    /\ userMessage = "Que vuelos hay en general?"
    /\ Len(collection) = 21 /\ flights = collection

\* C28: SearchFlights with origin o and destination d both present returns
\* exactly the documents whose origin matches o and whose destination
\* matches d (each a case-insensitive partial match, not the reverse
\* direction), and when maxPrice p > 0 only those among them with price at
\* most p, a flight priced exactly p included.
C28_DirectionalSearch ==
    (SearchSucceeded /\ filter.origin # "" /\ filter.destination # "") =>
        flights = SelectSeq(collection, LAMBDA f :
                    /\ FoldContains(f.Origin, filter.origin)
                    /\ FoldContains(f.Destination, filter.destination)
                    /\ filter.maxPrice > 0 => f.Price <= filter.maxPrice)

\* New York to "lon" with ceiling 540 finds the flight to London priced 540
\* only, not the flight from London to New York
C28_Witness ==
    /\ SearchSucceeded /\ orchPc = "idle"
    /\ filter = [origin |-> "New York", destination |-> "lon", maxPrice |-> 540]
    /\ Len(flights) = 1
    /\ flights[1].Origin = "New York" /\ flights[1].Destination = "London"
    /\ flights[1].Price = 540
    /\ \E i \in 1..Len(collection) :
          collection[i].Origin = "London" /\ collection[i].Destination = "New York"

\* the lines of the output that ServeHTTP did not write
RunLines == SelectSeq(output, LAMBDA line : line # "Client disconnected.")

\* C29: when SearchFlights returns an error the run records it outside the
\* event stream: once the call has come back with an error, the output of
\* the process has a line written by the run.
C29_StoreErrorRecorded ==
    (SearchCameBackEmpty /\ searchErr) => RunLines # <<>>

\* C30: a run leaves the store as it found it: no step of the handler, of
\* ProcessMessage or of a stage goroutine changes the collection, and the
\* only store operation a run calls is SearchFlights, at most once.
C30_RunLeavesStoreUnchanged ==
    [][collection' = collection /\ dbCalls' \in { dbCalls, dbCalls + 1 }
         /\ dbCalls' <= 1]_vars

\* a run on the larger store has searched, answered and closed its stream
C30_Witness ==
    /\ orchPc = "closed" /\ path = "flight"
    /\ dbCalls = 1 /\ ~searchErr /\ flights # <<>>
    /\ Len(collection) = 21
    /\ MessageCount(delivered) = 1

\* the request is one the handler accepts
ValidRequest == reqMethod = "POST" /\ userMessage # ""

\* nothing of a run exists: no orchestration goroutine, no stage goroutine,
\* no event, no store call and no completion call
NoRun ==
    /\ orchPc = "idle" /\ \A g \in Stages : stagePc[g] = "none"
    /\ ~eventChanClosed /\ delivered = <<>>
    /\ dbCalls = 0 /\ \A i \in LLMs : llmCalls[i] = 0

\* C39: the handler starts a run only for a valid request: a request whose
\* method is not POST is answered 405 and a POST with an empty body 400, and
\* for neither is a goroutine started, an event sent or a store or
\* completion call made.
C39_OnlyValidRequestsRun ==
    /\ ~ValidRequest => NoRun
    /\ (~ValidRequest /\ hPc = "returned") =>
          httpStatus = (IF reqMethod # "POST" THEN 405 ELSE 400)
    /\ httpStatus \in { 400, 405 } => ~ValidRequest /\ NoRun

\* a POST with an empty body was answered 400
C39_Witness ==
    /\ reqMethod = "POST" /\ userMessage = ""
    /\ hPc = "returned" /\ httpStatus = 400 /\ NoRun

\* no goroutine of the run has a send on eventChan ahead of it
NoSenderLeft ==
    /\ orchPc = "closed"
    /\ \A g \in Stages : stagePc[g] \in { "none", "done" }

\* eventChan is closed by this step
ClosesEventChan == ~eventChanClosed /\ eventChanClosed'

\* C34: nothing is sent on eventChan after it is closed: it is closed only
\* by the step that follows the return of ProcessMessage, once and for
\* good; when it is closed both stage goroutines have made their last send
\* or were never started; and no event is received after the close.
C34_NoSendAfterClose ==
    /\ [](eventChanClosed => NoSenderLeft)
    /\ [][/\ ClosesEventChan => (orchPc = "ret" /\ NoSenderLeft')
          /\ eventChanClosed => (eventChanClosed' /\ delivered' = delivered)]_vars

\* eventChan is closed after both stage goroutines sent their two events
C34_Witness ==
    /\ eventChanClosed /\ NoSenderLeft
    /\ \A g \in Stages : stagePc[g] = "done" /\ GotCount(g) = 1
    /\ MessageCount(delivered) = 1

Invoking3Event == Event("Status", "Invoking LLM 3 (aggregation)")

\* C35: the sends on the unbuffered eventChan gate the completion calls:
\* the call of stage X has been issued only if ServeHTTP has received
\* "Invoking LLM X", the LLM3 call only if it has received "Invoking LLM 3
\* (aggregation)", and as long as ServeHTTP has received nothing no
\* completion call has been issued.
C35_BackPressureGatesCalls ==
    /\ \A g \in Stages : llmCalls[g] > 0 => InvokingCount(g) = 1
    /\ llmCalls[3] > 0 => EventCount(Invoking3Event) = 1
    /\ delivered = <<>> => \A i \in LLMs : llmCalls[i] = 0

\* ServeHTTP returned without receiving: both stage goroutines are at their
\* first send and no call was issued
C35_Witness ==
    /\ hPc = "returned" /\ httpStatus = 500 /\ delivered = <<>>
    /\ \A g \in Stages : stagePc[g] = "send_invoking"
    /\ \A i \in LLMs : llmCalls[i] = 0

\* the handler has started the orchestration goroutine
OrchestrationStarted == orchPc # "idle"

\* C36: every orchestration goroutine the handler starts eventually
\* terminates and closes eventChan, also when ServeHTTP returns at once
\* with status 500 because the response writer is not a Flusher.
C36_OrchestrationTerminates == OrchestrationStarted ~> RunFinished

\* the API answered the request with status 200 and a body that decodes and
\* holds at least one choice
GoodReply(reply) ==
    /\ reply.kind = "response" /\ reply.status = 200
    /\ reply.decodes /\ Len(reply.choices) >= 1

\* C33: ChatCompletion returns no error only when the key is set, the
\* request was sent and answered 200, and the body decodes and holds a
\* choice, and the text is then the content of the first choice; in every
\* other outcome it returns "" with an error; and with an empty key it makes
\* no HTTP request.
C33_ChatCompletionErrors ==
    client.pc = "chat" =>
        /\ (client.err = "") <=> (client.apiKey # "" /\ GoodReply(client.reply))
        /\ client.err = "" => client.text = Head(client.reply.choices)
        /\ client.err # "" => client.text = ""
        /\ client.apiKey = "" => client.requests = 0
        /\ client.apiKey # "" => client.requests = 1

\* a response with status 429 and a body that would decode is an error
C33_Witness ==
    /\ client.pc = "chat" /\ client.apiKey = "sk-test"
    /\ client.reply.status = 429 /\ client.reply.choices = << "answer 1" >>
    /\ client.text = "" /\ client.err # "" /\ client.requests = 1

\* C37: StreamChatCompletion returns an error with a nil channel, or no
\* error with a closed channel that holds one chunk, the text ChatCompletion
\* returns for the same key and the same reaction of the API; a consumer
\* that ranges over the channel receives that one chunk and its loop can
\* then end, and does not end before.
C37_StreamIsOneChunk ==
    LET r == ChatCompletion(client.apiKey, client.reply)
    IN  /\ (client.pc = "stream" /\ client.err # "") =>
              client.chan = NilChan /\ r.err = client.err
        /\ (client.pc = "stream" /\ client.err = "") =>
              /\ r.err = "" /\ client.chan.closed /\ ~client.chan.nil
              /\ client.received \o client.chan.buf = << r.text >>
              /\ client.chan.buf = <<>> => ENABLED RangeEnd
        /\ client.pc = "ranged" => client.received = << r.text >>

\* the loop over the channel has ended after the chunk "answer 1"
C37_Witness ==
    /\ client.pc = "ranged" /\ client.received = << "answer 1" >>
    /\ client.chan.buf = <<>> /\ client.chan.closed

\* the position of the first occurrence of sep in s, 0 when there is none
IndexOf(s, sep) ==
    LET S == { i \in 1..(Len(s) - Len(sep) + 1) : SubSeq(s, i, i + Len(sep) - 1) = sep }
    IN  IF S = {} THEN 0 ELSE CHOOSE i \in S : \A j \in S : i <= j

RECURSIVE Split(_, _)
\* the parts of s between the occurrences of sep
Split(s, sep) ==
    LET i == IndexOf(s, sep)
    IN  IF i = 0 THEN << s >>
        ELSE << SubSeq(s, 1, i - 1) >> \o Split(SubSeq(s, i + Len(sep), Len(s)), sep)

\* the line is the field `name` with a value
IsField(line, name) ==
    Len(line) >= Len(name) + 2 /\ SubSeq(line, 1, Len(name) + 2) = name \o ": "

FieldValue(line, name) == SubSeq(line, Len(name) + 3, Len(line))

RECURSIVE JoinLines(_)
JoinLines(ls) ==
    IF Len(ls) = 1 THEN ls[1] ELSE ls[1] \o "\n" \o JoinLines(Tail(ls))

\* what a client makes of the lines of one block: the value of its "event"
\* line and the values of its "data" lines; a block without a "data" line
\* is no event
DecodeBlock(block) ==
    LET lines == Split(block, "\n")
        types == SelectSeq(lines, LAMBDA l : IsField(l, "event"))
        datas == SelectSeq(lines, LAMBDA l : IsField(l, "data"))
    IN  IF datas = <<>> THEN <<>>
        ELSE << Event(IF types = <<>> THEN "message"
                      ELSE FieldValue(types[Len(types)], "event"),
                      JoinLines([k \in 1..Len(datas) |-> FieldValue(datas[k], "data")])) >>

RECURSIVE DecodeBlocks(_)
DecodeBlocks(blocks) ==
    IF blocks = <<>> THEN <<>>
    ELSE DecodeBlock(Head(blocks)) \o DecodeBlocks(Tail(blocks))

\* the events a client reads from the bytes: blocks end at a blank line
DecodeStream(bytes) == DecodeBlocks(Split(bytes, "\n\n"))

\* C38: the SSE encoding round-trips: decoding the bytes ServeHTTP wrote by
\* the framing "event: <type>", "data: <data>", blank line gives back the
\* events it received, also when Data has line breaks or blank lines.
C38_SseRoundTrip == DecodeStream(Written) = delivered

(***************************************************************************)
(* ProcessMessageStream against ProcessMessage.                            *)
(***************************************************************************)
\* ProcessMessageStream has classified the query
StreamClassified == path # ""

\* C31: ProcessMessageStream makes the domain classification of
\* ProcessMessage and issues its SearchFlights call: the query is taken as a
\* flight query exactly when ProcessMessage takes it as one, and the origin,
\* destination and price ceiling handed to SearchFlights are ones that
\* ProcessMessage hands to it for the same query text.
C31_StreamSameAsProcessMessage ==
    StreamClassified =>
        /\ path = "flight" <=> userMessage \in FlightQueries
        /\ path = "flight" => filter \in Filters[userMessage]

\* ProcessMessageStream reached the aggregation call
StreamReachedAggregation == llmCalls[3] > 0

\* C32: in a run of ProcessMessageStream that is not cancelled, reached the
\* aggregation and returned, exactly one Message event was published and it
\* is the last event, whatever number of chunks the stream delivered.
C32_StreamOneTerminalMessage ==
    (NotCancelled /\ Returned /\ StreamReachedAggregation) =>
        /\ MessageCount(delivered) = 1
        /\ TerminalMessage.Type = "Message"

=============================================================================
